---- MODULE Spec2Model ----
(***************************************************************************)
(* Model of src/main.py: a FastAPI process that owns one global Selenium   *)
(* browser handle (driver) and exposes three handlers, start_bot,          *)
(* get_status and stop_bot.  start_bot drives an eleven-step form wizard   *)
(* and then scrapes three coverage tiers.                                  *)
(*                                                                         *)
(* The browser is the environment: every browser call either returns or    *)
(* raises, and the model draws that outcome with \E.  The handlers are     *)
(* `async def` without any await, so a handler runs to completion before   *)
(* another one starts; the position of the running start_bot call is pc,   *)
(* and a request that arrives before it has returned waits in pending.     *)
(***************************************************************************)
EXTENDS Integers, Sequences, FiniteSets, TLC

(***************************************************************************)
(* Bounds of the model.                                                    *)
(***************************************************************************)
\* Browser sessions that may be created in one behaviour.
MaxSessions == 2

\* Entries of an ordered strategy list that are modelled (the list of
\* step 5 has fifteen).
MaxSelectors == 2

\* The last reading of the wall clock that is modelled, in half seconds
\* since a poll loop was about to start.
MaxClock == 22

(***************************************************************************)
(* Values.                                                                 *)
(***************************************************************************)
\* Python's None for the global handle (session ids are 1, 2, ...).
None == 0

\* Python's None for an Optional[str] field of StartRequest.
NoneStr == "<None>"

\* The request payloads tried: all three fields given, none given, one of
\* them absent, the year empty.
StartRequest ==
    { [year |-> "2018", make |-> "Toyota", model |-> "Camry"],
      [year |-> NoneStr, make |-> NoneStr, model |-> NoneStr],
      [year |-> NoneStr, make |-> "Toyota", model |-> "Camry"],
      [year |-> "2018", make |-> NoneStr, model |-> "Camry"],
      [year |-> "2018", make |-> "Toyota", model |-> NoneStr],
      [year |-> "", make |-> "Toyota", model |-> "Camry"] }

\* Python truthiness of an Optional[str]: None and "" are falsy.
Truthy(s) == s # NoneStr /\ s # ""

\* Exceptions a browser call can raise: type(e).__name__ and str(e).
TimeoutException == [type |-> "TimeoutException", text |-> "Message: "]

StaleElementReferenceException ==
    [type |-> "StaleElementReferenceException",
     text |-> "Message: stale element reference"]

Exceptions == {TimeoutException, StaleElementReferenceException}

\* No exception: the call returned.
NoFault == [type |-> "none", text |-> ""]

\* The classes an exception belongs to: every exception selenium
\* raises derives from WebDriverException.
Bases(e) == {e.type, "WebDriverException", "Exception", "BaseException"}

\* Whether the handler `except clause` takes e.
Caught(clause, e) == clause \in Bases(e)

\* A try statement whose body came to fault (NoFault: it ran to its end)
\* and whose only handler, `except clause`, raises nothing itself: what
\* leaves the statement, and whether the handler ran.
Try(clause, fault) ==
    IF fault # NoFault /\ Caught(clause, fault)
    THEN [raised |-> NoFault, swallowed |-> TRUE]
    ELSE [raised |-> fault, swallowed |-> FALSE]

\* Statements in sequence: the first one that raises ends them.
FirstFault(faults) ==
    IF \A i \in DOMAIN faults : faults[i] = NoFault THEN NoFault
    ELSE faults[CHOOSE i \in DOMAIN faults :
                    /\ faults[i] # NoFault
                    /\ \A j \in DOMAIN faults : j < i => faults[j] = NoFault]

\* Outcomes of driver.quit(): it returns, or it raises after the browser
\* went away, or it raises and the browser is still running.
QuitOutcomes == {"ok", "raise_dead", "raise_live"}

QuitRaises(q) == q # "ok"

\* The live sessions after quit() was called on session id with outcome q.
AfterQuit(l, id, q) == IF q = "raise_live" THEN l ELSE l \ {id}

\* A session-level browser call: its name, the session it was made on and
\* whether it raised.
Call(name, id, raised) == [call |-> name, on |-> id, raised |-> raised]

\* The value of a handler's response before the handler has returned.
Pending == [pending |-> TRUE]

VARIABLES
    driver,     \* the global handle: None or a session id
    live,       \* ids of the browser sessions that are running
    sessions,   \* number of sessions created so far
    pc,         \* position of the running start_bot call, or "idle"
    request,    \* the StartRequest of the current / last start_bot call
    mine,       \* session created by the current / last start_bot call
    prior,      \* handle found set on entry of that call (None if none)
    attempted,  \* wizard steps of that call in which an interaction started
    advanced,   \* wizard steps of that call that completed
    failed,     \* step whose except-branch returned the error (0: none)
    clickedBy,  \* after step 1: the method that clicked the button (else 0)
    dropdowns,  \* fields select_custom_dropdown was called for, in order
    swallowed,  \* sub-steps of the step just run whose failure was swallowed
    activated,  \* tiers whose selector control was clicked
    tiers,      \* tiers whose except-branch or scrape finished, in order
    quotes,     \* minimum_quotes, basic_quotes, better_quotes
    shown,      \* the tier the results page has active
    scraped,    \* per tier: the cards located and the tier shown then
    obs,        \* what the browser saw happen in the step just run
    calls,      \* session-level browser calls of the last handler call
    lastOp,     \* the handler that returned last
    response,   \* what it returned
    pending     \* requests that arrived while a handler was running

vars == << driver, live, sessions, pc, request, mine, prior, attempted,
           advanced, failed, clickedBy, dropdowns, swallowed, activated,
           tiers, quotes, shown, scraped, obs, calls, lastOp, response,
           pending >>

session_vars == << driver, live, sessions >>
run_vars == << request, mine, prior, attempted, advanced, failed, clickedBy,
               dropdowns, swallowed, activated, tiers, quotes, shown, scraped,
               obs >>
results_vars == << activated, tiers, quotes, shown, scraped >>
record_vars == << request, mine, prior, attempted, advanced, failed,
                 dropdowns, results_vars >>

NoQuotes == [minimum |-> << >>, basic |-> << >>, better |-> << >>]

\* Nothing scraped yet for any tier.
NoScrape == [cards |-> << >>, shown |-> "none"]
NotScraped == [minimum |-> NoScrape, basic |-> NoScrape, better |-> NoScrape]

\* No selector of an ordered strategy list matches anything.
NoMatch == "none"
NoOptions == [s \in 1 .. MaxSelectors |-> NoMatch]

\* No select_custom_dropdown call was made.
NoWidget ==
    [field |-> "none", before |-> "", opened |-> FALSE, cleared |-> FALSE,
     typed |-> FALSE,
     activations |-> << >>,  \* the ways the control was asked to open
     first |-> "none",       \* what the first RETURN did
     retry |-> "none",       \* what the re-find and second RETURN did
     confirmations |-> 0,    \* attempts to confirm with RETURN
     reresolved |-> 0,       \* re-finds of the input for a confirmation
     returned |-> FALSE,     \* the boolean handed to the caller
     raised |-> NoFault]     \* the exception that left the call

\* The trim dropdown was not looked at.
NoTrim ==
    [examined |-> FALSE,     \* the displayed value was read
     before |-> "",          \* the value displayed when it was read
     activations |-> << >>,  \* the ways the dropdown was asked to open
     opened |-> FALSE,
     focused |-> FALSE,      \* focus() was dispatched to the input
     clicked |-> FALSE,      \* click() was called on the input
     confirmations |-> 0,    \* RETURN by send_keys, then by script
     failed |-> FALSE]       \* an exception ended the protocol

\* No loop is running.
NoLoop ==
    [kind |-> "none",        \* "poll", "selectors" or "refind"
     step |-> 0,             \* the step whose button is polled
     start_time |-> 0,       \* time.time() before the loop
     now |-> 0,              \* time.time(), in half seconds
     seen |-> {},            \* what the iterations met
     at |-> 0,               \* the selector the for loop is at
     state |-> "none"]       \* "running" or how the loop was left

\* scrape_quotes_from_page is not running.
NotScraping ==
    [page |-> [v2 |-> << >>, legacy |-> << >>, leaf |-> << >>],
     consulted |-> << >>,    \* the card selectors consulted, in order
     cards |-> << >>,        \* quote_cards
     records |-> << >>,      \* scraped_quotes
     searches |-> << >>,     \* per card: the price methods run and their yield
     state |-> "none"]       \* "waiting", "located", "returned"

\* No typing loop ran.
NoTyping ==
    [value |-> << >>,        \* the text to type
     next |-> 1,             \* the character the loop is at
     sends |-> << >>,        \* every send_keys call of the loop, in order
     refinds |-> 0,          \* re-finds of the input after a stale reference
     completed |-> FALSE,    \* the loop ran to its end
     failed |-> FALSE]       \* an exception left the loop

\* A step in which none of the observed things happened.
NoObs ==
    [poll |-> "none",        \* the enable poll of Save & continue
     clicked |-> FALSE,      \* click() was called on Save & continue
     widget |-> NoWidget,    \* the last select_custom_dropdown call
     helpers |-> {},         \* human_* helpers in which a browser call raised
     origin |-> "none",      \* where the exception that ended the step was
                             \* raised: "helper", "save", a part of step
                             \* 7, 9 or 10 ("none": elsewhere, or no exception)
     refinds |-> 0,          \* re-finds made after a stale reference
     options |-> NoOptions,  \* what each selector of the list matches
     resolved |-> NoMatch,   \* the element the list resolved to
     verified |-> FALSE,     \* a wait saw the URL change after the click
     tried |-> {},           \* the step-1 methods that were run
     clicks |-> << >>,       \* the step-1 methods that clicked the button
     trim |-> NoTrim,        \* the trim dropdown of step 7
     typing |-> NoTyping,    \* the typing loop the step is in
     scrape |-> NotScraping, \* a scrape taken on its own
     loop |-> NoLoop]        \* the poll or selector loop the step is in

Init ==
    /\ driver = None
    /\ live = {}
    /\ sessions = 0
    /\ pc = "idle"
    /\ request = [year |-> NoneStr, make |-> NoneStr, model |-> NoneStr]
    /\ mine = None
    /\ prior = None
    /\ attempted = {}
    /\ advanced = {}
    /\ failed = 0
    /\ clickedBy = 0
    /\ dropdowns = << >>
    /\ swallowed = {}
    /\ activated = {}
    /\ tiers = << >>
    /\ quotes = NoQuotes
    /\ shown = "minimum"
    /\ scraped = NotScraped
    /\ obs = NoObs
    /\ calls = << >>
    /\ lastOp = "none"
    /\ response = Pending
    /\ pending = << >>

(***************************************************************************)
(* Response payloads.                                                      *)
(***************************************************************************)
\* The three-key error payload of start_bot.
ErrorResponse(msg, etype) ==
    [status |-> "error", message |-> msg, error_type |-> etype]

\* Steps 9, 10 and 11 add the key full_error.
FullErrorResponse(msg, e) ==
    [status |-> "error", message |-> msg, error_type |-> e.type,
     full_error |-> e.text]

\* The driver-initialisation failure adds the key suggestion.
InitErrorResponse(e) ==
    [status |-> "error",
     message |-> "Failed to initialize Chrome driver: " \o e.text,
     error_type |-> e.type,
     suggestion |-> "Make sure Google Chrome is installed. undetected-chromedriver will auto-download the matching ChromeDriver."]

\* The success payload with the count of the minimum collection copied
\* into the other two counts.
QuotesResponse_miscounted(q) ==
    [minimum_plan_quotes |-> q.minimum,
     basic_plan_quotes |-> q.basic,
     better_plan_quotes |-> q.better,
     minimum_quotes_count |-> Len(q.minimum),
     basic_quotes_count |-> Len(q.minimum),
     better_quotes_count |-> Len(q.minimum)]

\* The success payload: three collections and their lengths.
QuotesResponse(q) ==
    [minimum_plan_quotes |-> q.minimum,
     basic_plan_quotes |-> q.basic,
     better_plan_quotes |-> q.better,
     minimum_quotes_count |-> Len(q.minimum),
     basic_quotes_count |-> Len(q.basic),
     better_quotes_count |-> Len(q.better)]

(***************************************************************************)
(* The event loop.  uvicorn runs the three `async def` handlers on one     *)
(* event loop: a handler that was started runs until it returns or awaits, *)
(* and a request that arrives meanwhile waits.                             *)
(***************************************************************************)
\* pc of wizard step / scraping step k.
StepPc(k) == "step" \o ToString(k)

\* start_bot as it would be if the pauses between its steps were awaited
\* sleeps.
AwaitPoints_delays == { StepPc(k) : k \in 1 .. 14 }

\* The positions at which a running start_bot hands control back to the
\* event loop: its body has no await (the pauses are time.sleep, which
\* blocks the loop), and get_status and stop_bot have none either.
AwaitPoints == {}

\* The event loop can start a handler: none is running, or the one that
\* is running is suspended.
LoopFree == pc = "idle" \/ pc \in AwaitPoints

Request(op) == [op |-> op]

StartReq(req) == [op |-> "start", req |-> req]

\* The handler of request r is started: the loop is free and r is the
\* request that waited longest, or none waits and r arrives now.
Dispatched(r) == LoopFree /\ (IF pending = << >> THEN TRUE ELSE Head(pending) = r)

\* The requests still waiting once a handler was started.
Served == IF pending = << >> THEN << >> ELSE Tail(pending)

(***************************************************************************)
(* get_status and stop_bot.                                                *)
(***************************************************************************)
\* The record of a start_bot call (its request, its session, the steps it
\* ran, what it scraped and what its last step observed) is made of locals
\* of that call: another handler starts without them.
Forget ==
    /\ clickedBy' = 0
    /\ swallowed' = {}
    /\ obs' = NoObs
    /\ request' = [year |-> NoneStr, make |-> NoneStr, model |-> NoneStr]
    /\ mine' = None
    /\ prior' = None
    /\ attempted' = {}
    /\ advanced' = {}
    /\ failed' = 0
    /\ dropdowns' = << >>
    /\ activated' = {}
    /\ tiers' = << >>
    /\ quotes' = NoQuotes
    /\ shown' = "minimum"
    /\ scraped' = NotScraped

\* What the page of a running session shows to driver.current_url / title.
Pages == { [url |-> "https://www.thezebra.com/insurance/car/prefill/start/",
            title |-> "The Zebra"] }

get_status ==
    /\ Dispatched(Request("status"))
    /\ pending' = Served
    /\ IF driver = None
         THEN /\ response' = [status |-> "no_browser",
                              message |-> "No browser session active"]
              /\ calls' = << >>
         ELSE \/ /\ driver \in live
                 /\ \E p \in Pages :
                       response' = [status |-> "active",
                                    current_url |-> p.url,
                                    title |-> p.title]
                 /\ calls' = << Call("current_url", driver, FALSE),
                                Call("title", driver, FALSE) >>
              \/ /\ \E e \in Exceptions :
                       response' =
                           [status |-> "error",
                            message |-> "Browser session error: " \o e.text]
                 /\ \/ calls' = << Call("current_url", driver, TRUE) >>
                    \/ /\ driver \in live
                       /\ calls' = << Call("current_url", driver, FALSE),
                                      Call("title", driver, TRUE) >>
    /\ lastOp' = "status"
    /\ Forget
    /\ UNCHANGED << session_vars, pc >>

\* stop_bot that clears the handle before quitting and reports success
\* without looking at the outcome of quit().
stop_bot_unchecked ==
    /\ Dispatched(Request("stop"))
    /\ pending' = Served
    /\ \E q \in QuitOutcomes :
          /\ live' = AfterQuit(live, driver, q)
          /\ driver' = None
          /\ response' = [status |-> "success",
                          message |-> "Browser closed successfully"]
          /\ calls' = << Call("quit", driver, QuitRaises(q)) >>
    /\ lastOp' = "stop"
    /\ Forget
    /\ UNCHANGED << sessions, pc >>

stop_bot ==
    /\ Dispatched(Request("stop"))
    /\ pending' = Served
    /\ IF driver = None
         THEN /\ response' = [status |-> "no_browser",
                              message |-> "No browser session to close"]
              /\ calls' = << >>
              /\ UNCHANGED << driver, live >>
         ELSE \E q \in QuitOutcomes :
                /\ live' = AfterQuit(live, driver, q)
                /\ calls' = << Call("quit", driver, QuitRaises(q)) >>
                /\ IF QuitRaises(q)
                     THEN /\ driver' = driver
                          /\ \E e \in Exceptions :
                                response' =
                                    [status |-> "error",
                                     message |-> "Error closing browser: "
                                                     \o e.text]
                     ELSE /\ driver' = None
                          /\ response' =
                                 [status |-> "success",
                                  message |-> "Browser closed successfully"]
    /\ lastOp' = "stop"
    /\ Forget
    /\ UNCHANGED << sessions, pc >>

(***************************************************************************)
(* start_bot: entry, driver creation and page set-up.                      *)
(***************************************************************************)
\* The step-7 guard `request.year and request.make and request.model`
\* with `or` in place of `and`.
VehicleSupplied_any(req) ==
    Truthy(req.year) \/ Truthy(req.make) \/ Truthy(req.model)

\* The step-7 guard: `request.year and request.make and request.model`.
VehicleSupplied(req) ==
    Truthy(req.year) /\ Truthy(req.make) /\ Truthy(req.model)

\* The outer `except Exception` of start_bot: quit the browser inside a
\* try that swallows, clear the handle only if quit() returned, and return
\* the "Unexpected error" payload.
UnexpectedFault(e, q) ==
    /\ live' = AfterQuit(live, driver, q)
    /\ driver' = IF QuitRaises(q) THEN driver ELSE None
    /\ calls' = Append(calls, Call("quit", driver, QuitRaises(q)))
    /\ response' = ErrorResponse("Unexpected error: " \o e.text, e.type)
    /\ pc' = "idle"
    /\ UNCHANGED << sessions, lastOp >>

\* start_bot that logs a failed creation of the driver and goes on to the
\* page set-up.
start_bot_proceeds(req) ==
    /\ Dispatched(StartReq(req))
    /\ pending' = Served
    /\ sessions < MaxSessions
    /\ \E q \in QuitOutcomes :
          /\ driver = None => q = "ok"
          /\ request' = req
          /\ prior' = driver
          /\ LET closed == IF driver = None THEN live
                           ELSE AfterQuit(live, driver, q)
                 quit == IF driver = None THEN << >>
                         ELSE << Call("quit", driver, QuitRaises(q)) >>
             IN  \/ /\ sessions' = sessions + 1
                    /\ driver' = sessions + 1
                    /\ mine' = sessions + 1
                    /\ live' = closed \cup {sessions + 1}
                    /\ calls' = quit \o << Call("Chrome", sessions + 1,
                                                FALSE) >>
                    /\ response' = Pending
                    /\ pc' = "setup"
                 \/ \E e \in Exceptions :
                    /\ sessions' = sessions
                    /\ driver' = driver
                    /\ mine' = None
                    /\ live' = closed
                    /\ calls' = quit \o << Call("Chrome", None, TRUE) >>
                    /\ response' = Pending
                    /\ pc' = "setup"
    /\ lastOp' = "start"
    /\ attempted' = {}
    /\ advanced' = {}
    /\ failed' = 0
    /\ clickedBy' = 0
    /\ dropdowns' = << >>
    /\ swallowed' = {}
    /\ activated' = {}
    /\ tiers' = << >>
    /\ quotes' = NoQuotes
    /\ shown' = "minimum"
    /\ scraped' = NotScraped
    /\ obs' = NoObs

\* Entry of start_bot up to the creation of the driver: close the existing
\* browser if the handle is set (a raising quit() is swallowed), then create
\* the new driver; a failed creation returns the initialisation error and
\* leaves the global handle as it was.
start_bot(req) ==
    /\ Dispatched(StartReq(req))
    /\ pending' = Served
    /\ sessions < MaxSessions
    /\ \E q \in QuitOutcomes :
          /\ driver = None => q = "ok"
          /\ request' = req
          /\ prior' = driver
          /\ LET closed == IF driver = None THEN live
                           ELSE AfterQuit(live, driver, q)
                 quit == IF driver = None THEN << >>
                         ELSE << Call("quit", driver, QuitRaises(q)) >>
             IN  \/ /\ sessions' = sessions + 1
                    /\ driver' = sessions + 1
                    /\ mine' = sessions + 1
                    /\ live' = closed \cup {sessions + 1}
                    /\ calls' = quit \o << Call("Chrome", sessions + 1,
                                                FALSE) >>
                    /\ response' = Pending
                    /\ pc' = "setup"
                 \/ \E e \in Exceptions :
                    /\ sessions' = sessions
                    /\ driver' = driver
                    /\ mine' = None
                    /\ live' = closed
                    /\ calls' = quit \o << Call("Chrome", None, TRUE) >>
                    /\ response' = InitErrorResponse(e)
                    /\ pc' = "idle"
    /\ lastOp' = "start"
    /\ attempted' = {}
    /\ advanced' = {}
    /\ failed' = 0
    /\ clickedBy' = 0
    /\ dropdowns' = << >>
    /\ swallowed' = {}
    /\ activated' = {}
    /\ tiers' = << >>
    /\ quotes' = NoQuotes
    /\ shown' = "minimum"
    /\ scraped' = NotScraped
    /\ obs' = NoObs

\* Stealth scripts (execute_cdp_cmd), driver.get(url) and the wait for the
\* page body: none of them is inside a try of its own, so a fault goes to
\* the outer handler.
SetupStages == {"execute_cdp_cmd", "get", "body"}

\* The session-level calls of the set-up up to the one that raised: a
\* stealth script, driver.get(url), or the wait for the page body.
SetupCalls(stage) ==
    IF stage = "execute_cdp_cmd"
    THEN << Call("execute_cdp_cmd", driver, TRUE) >>
    ELSE << Call("execute_cdp_cmd", driver, FALSE),
            Call("get", driver, stage = "get") >>

(***************************************************************************)
(* The human-behaviour helpers.  Each makes up to two browser calls; an    *)
(* outcome says what each of them does.  The result says which exception   *)
(* left the helper (raised) and whether one was swallowed inside it.       *)
(***************************************************************************)
\* The `headless = True` of start_bot.
headless == TRUE

\* What a browser call made by a helper may raise besides the exceptions
\* of every browser call.
HelperFault ==
    [type |-> "MoveTargetOutOfBoundsException",
     text |-> "Message: move target out of bounds"]

\* What a browser call made by a helper does: it returns or it raises.
CallOutcomes == {NoFault, HelperFault} \cup Exceptions

BrowserFaults == [first : CallOutcomes, second : CallOutcomes]

\* human_scroll: scrollBy down, then scrollBy back up, in one
\* `try ... except Exception: pass`.
human_scroll(o) == Try("Exception", FirstFault(<< o.first, o.second >>))

\* human_mouse_move whose fallback is not in a try of its own.
human_mouse_move_unguarded(o) ==
    LET chain == Try("Exception", o.first)
    IN  IF chain.swallowed
        THEN [raised |-> o.second, swallowed |-> o.second = NoFault]
        ELSE chain

\* human_mouse_move: perform() of the jittered chain in a try; its
\* `except Exception` performs the plain move_to_element chain in a
\* `try ... except Exception: pass` of its own.
human_mouse_move(o) ==
    LET chain == Try("Exception", o.first)
        fallback == Try("Exception", o.second)
    IN  IF chain.swallowed
        THEN [raised |-> fallback.raised, swallowed |-> TRUE]
        ELSE chain

\* The outcomes of random_page_interaction: its two scripts, and whether
\* `random.random() > 0.5` had the second one run.
InteractionFaults ==
    [first : CallOutcomes, second : CallOutcomes, back : BOOLEAN]

\* random_page_interaction: scrollBy down, then sometimes scrollBy back, in
\* one `try ... except Exception: pass`.
random_page_interaction(o) ==
    Try("Exception",
        FirstFault(<< o.first, IF o.back THEN o.second ELSE NoFault >>))

\* The helpers called in step k, in the order of the calls: human_scroll
\* opens step 4; step 1 and the scrape of step 12 call none.
HelperCalls(k) ==
    IF k = 4 THEN << "human_scroll", "human_mouse_move" >>
    ELSE IF k \in {1, 12} THEN << >>
    ELSE << "human_mouse_move" >>

HelpersOf(k) == { HelperCalls(k)[i] : i \in DOMAIN HelperCalls(k) }

Helper(name, o) ==
    IF name = "human_scroll" THEN human_scroll(o) ELSE human_mouse_move(o)

\* The outcomes of the helper calls of step k.
HelperFaults(k) == [HelpersOf(k) -> BrowserFaults]

\* The exception that left a helper of step k, if any did.
HelpersRaised(k, f) ==
    FirstFault([i \in DOMAIN HelperCalls(k) |->
                   Helper(HelperCalls(k)[i], f[HelperCalls(k)[i]]).raised])

HelpersSwallowed(k, f) == { h \in HelpersOf(k) : Helper(h, f[h]).swallowed }

\* What the helper calls of each step come to: the exception that left
\* one of them, and the helpers that swallowed one.
HelperTable ==
    [k \in 1 .. 14 |->
        { [raised |-> HelpersRaised(k, f),
           swallowed |-> HelpersSwallowed(k, f)] : f \in HelperFaults(k) }]

HelperRuns(k) == HelperTable[k]

\* The helper calls of the set-up: none in a headless browser, else
\* random_page_interaction and then human_scroll.
SetupHelpers ==
    IF headless THEN { [raised |-> NoFault, swallowed |-> {}] }
    ELSE { [raised |-> FirstFault(<< random_page_interaction(i).raised,
                                     human_scroll(o).raised >>),
            swallowed |->
                (IF random_page_interaction(i).swallowed
                 THEN {"random_page_interaction"} ELSE {})
                \cup (IF human_scroll(o).swallowed
                      THEN {"human_scroll"} ELSE {})] :
              i \in InteractionFaults, o \in BrowserFaults }

\* What can take a step to its except-branch: the exception that left a
\* helper, else whatever a browser call of the step raises.
StepFaults(h) == IF h.raised # NoFault THEN {h.raised} ELSE Exceptions

\* What a step that made the helper calls h has seen of them.
Seen(h) ==
    [NoObs EXCEPT !.helpers = h.swallowed,
                  !.origin = IF h.raised # NoFault THEN "helper" ELSE "none"]

\* The same for a step that an exception raised in part ended.
SeenAt(h, part) ==
    [NoObs EXCEPT !.helpers = h.swallowed,
                  !.origin = IF h.raised # NoFault THEN "helper" ELSE part]

\* The set-up of the page: stealth scripts, driver.get(url), the wait for
\* the page body, then the helpers of a browser that is not headless.
Setup ==
    /\ UNCHANGED pending
    /\ pc = "setup"
    /\ \E h \in SetupHelpers :
          /\ obs' = Seen(h)
          /\ \/ /\ h.raised = NoFault
                /\ pc' = StepPc(1)
                /\ calls' = calls \o << Call("execute_cdp_cmd", driver, FALSE),
                                        Call("get", driver, FALSE) >>
                /\ UNCHANGED << session_vars, lastOp, response >>
             \/ \E stage \in SetupStages, e \in StepFaults(h),
                   q \in QuitOutcomes :
                   /\ live' = AfterQuit(live, driver, q)
                   /\ driver' = IF QuitRaises(q) THEN driver ELSE None
                   /\ calls' = calls \o SetupCalls(stage)
                                     \o << Call("quit", driver, QuitRaises(q)) >>
                   /\ response' = ErrorResponse(
                                      "Unexpected error: " \o e.text, e.type)
                   /\ pc' = "idle"
                   /\ UNCHANGED << sessions, lastOp >>
    /\ UNCHANGED << request, mine, prior, attempted, advanced, failed,
                    clickedBy, dropdowns, swallowed, results_vars >>

(***************************************************************************)
(* Optional sub-steps.  Five of them sit in a `try ... except Exception`   *)
(* of their own whose handler logs a warning; the two optional dropdowns   *)
(* of step 10 are calls of select_custom_dropdown whose False is logged.   *)
(* The step goes on with the sub-step after it.                            *)
(***************************************************************************)
\* An optional sub-step without a try of its own.
optional_unguarded(name, fault) == [raised |-> fault, swallowed |-> FALSE]

\* An optional sub-step whose body came to fault: what leaves it, and
\* whether its failure was logged and passed over.
optional(name, fault) == Try("Exception", fault)

\* What the sub-step name can come to when its body fails, or does not.
OptionalRuns(name, fails) ==
    { optional(name, f) : f \in IF fails THEN Exceptions ELSE {NoFault} }

(***************************************************************************)
(* The wizard, steps 1 to 11.                                              *)
(***************************************************************************)
\* An except-branch that logs the failure of step k and falls through to
\* the next step instead of returning.
StepFailed_fallthrough(k, resp) ==
    /\ attempted' = attempted \cup {k}
    /\ failed' = k
    /\ pc' = StepPc(k + 1)
    /\ UNCHANGED << session_vars, advanced, calls, lastOp, response,
                    request, mine, prior, results_vars >>

\* The except-branch of step k: return resp; the browser is not touched.
StepFailed(k, resp) ==
    /\ attempted' = attempted \cup {k}
    /\ failed' = k
    /\ response' = resp
    /\ pc' = "idle"
    /\ UNCHANGED << session_vars, advanced, calls, lastOp, request, mine,
                    prior, results_vars >>

\* Step k ran to its "Step k completed" line: go on with the next step.
StepAdvanced(k) ==
    /\ attempted' = attempted \cup {k}
    /\ advanced' = advanced \cup {k}
    /\ pc' = StepPc(k + 1)
    /\ UNCHANGED << session_vars, failed, calls, lastOp, response, request,
                    mine, prior, results_vars >>

\* What the page lets each of the four step-1 methods do: find the button
\* and click it, or raise.
MethodOutcomes == [1 .. 4 -> BOOLEAN]

\* No method was run yet: button_clicked = False.
NoMethod == [tried |-> {}, clicks |-> << >>]

RECURSIVE TryMethods_unguarded(_, _, _)
\* The four methods without their "if not button_clicked" guards.
TryMethods_unguarded(i, works, acc) ==
    IF i > 4 THEN acc
    ELSE TryMethods_unguarded(i + 1, works,
             [tried |-> acc.tried \cup {i},
              clicks |-> IF works[i] THEN Append(acc.clicks, i)
                         ELSE acc.clicks])

RECURSIVE TryMethods(_, _, _)
\* Methods i .. 4 in turn: a method runs only while button_clicked is
\* still False, and sets it when its click went through.
TryMethods(i, works, acc) ==
    IF i > 4 THEN acc
    ELSE IF acc.clicks # << >> THEN TryMethods(i + 1, works, acc)
    ELSE TryMethods(i + 1, works,
             [tried |-> acc.tried \cup {i},
              clicks |-> IF works[i] THEN Append(acc.clicks, i)
                         ELSE acc.clicks])

\* What the four methods can come to.
MethodRuns == { TryMethods(1, works, NoMethod) : works \in MethodOutcomes }

\* Step 1: four methods are tried in turn until one clicks the button
\* (m is the one that did, 0 if none); then driver.current_url is read for
\* the log line outside any inner try.
Step1 ==
    /\ UNCHANGED pending
    /\ pc = StepPc(1)
    /\ UNCHANGED << dropdowns, swallowed >>
    /\ \E r \in MethodRuns :
       LET m == IF r.clicks = << >> THEN 0 ELSE r.clicks[1]
       IN /\ obs' = [NoObs EXCEPT !.tried = r.tried, !.clicks = r.clicks]
          /\ clickedBy' = m
          /\ IF m = 0
               THEN StepFailed(1, ErrorResponse(
                        "Failed to find or click the button after trying all methods",
                        "ElementNotFoundError"))
               ELSE \/ StepAdvanced(1)
                    \/ /\ \E e \in Exceptions, q \in QuitOutcomes :
                             UnexpectedFault(e, q)
                       /\ attempted' = attempted \cup {1}
                       /\ UNCHANGED << advanced, failed, request, mine,
                                       prior, results_vars >>

\* Steps 2 and 3: locate a radio button, move the pointer to it, click it
\* (no handler for a stale reference), read current_url.
Step2 ==
    /\ UNCHANGED pending
    /\ pc = StepPc(2)
    /\ clickedBy' = 0
    /\ swallowed' = {}
    /\ UNCHANGED dropdowns
    /\ \E h \in HelperRuns(2) :
          /\ obs' = Seen(h)
          /\ \/ h.raised = NoFault /\ StepAdvanced(2)
             \/ \E e \in StepFaults(h) :
                  StepFailed(2, ErrorResponse(
                      "Step 2 failed: Failed to find or click the 'Other' button: "
                          \o e.text, e.type))

Step3 ==
    /\ UNCHANGED pending
    /\ pc = StepPc(3)
    /\ clickedBy' = 0
    /\ swallowed' = {}
    /\ UNCHANGED dropdowns
    /\ \E h \in HelperRuns(3) :
          /\ obs' = Seen(h)
          /\ \/ h.raised = NoFault /\ StepAdvanced(3)
             \/ \E e \in StepFaults(h) :
                  StepFailed(3, ErrorResponse(
                      "Step 3 failed: Failed to find or click the 'Sometime in the future' button: "
                          \o e.text, e.type))

(***************************************************************************)
(* Save & continue, the enable-gated control of steps 4, 6, 8, 9 and 10.   *)
(***************************************************************************)
\* poll: the button was not found ("none"), or the ten-second poll of its
\* disabled attribute saw it enabled, or expired.  after: what follows the
\* poll: the wait for element_to_be_clickable times out, or scrollIntoView
\* or the reading of current_url before the click raises, or click()
\* raises, or the URL does not change, or the next page loads and the
\* reading of current_url for the log line raises, or it returns.
GateOutcomes ==
    { [poll |-> "none", after |-> "not_found"] } \cup
    [poll : {"enabled", "expired"},
     after : {"not_clickable", "unclicked", "click_raised", "no_navigation",
              "log_raised", "navigated"}]

\* Whether click() was called on the button, whether the wait saw the
\* next page, whether the part ran to its end, and what is raised when it
\* did not.
SaveAndContinue(g) ==
    [clicked |-> g.after \in {"click_raised", "no_navigation", "log_raised",
                              "navigated"},
     navigated |-> g.after \in {"log_raised", "navigated"},
     completed |-> g.after = "navigated",
     faults |-> IF g.after \in {"not_found", "unclicked", "click_raised",
                               "log_raised"}
                THEN Exceptions
                ELSE {TimeoutException}]

SaveMessage(k) ==
    "Step " \o ToString(k)
        \o " failed: Failed to find, enable, or click the 'Save & continue' button: "

\* The Save & continue part of step k; base is what the step observed
\* before it.
SaveGate(k, h, base) ==
    \E g \in GateOutcomes :
       LET s == SaveAndContinue(g)
       IN  /\ obs' = [base EXCEPT
                         !.helpers = h.swallowed,
                         !.origin = IF h.raised # NoFault THEN "helper"
                                    ELSE IF s.completed THEN "none"
                                    ELSE "save",
                         !.poll = g.poll,
                         !.clicked = s.clicked,
                         !.verified = s.navigated]
           /\ IF s.completed /\ h.raised = NoFault
                THEN StepAdvanced(k)
                ELSE \E e \in (IF h.raised # NoFault THEN {h.raised}
                               ELSE s.faults) :
                        StepFailed(k, ErrorResponse(SaveMessage(k) \o e.text,
                                                    e.type))

\* Step 4: human_scroll, then Save & continue.
Step4 ==
    /\ UNCHANGED pending
    /\ pc = StepPc(4)
    /\ clickedBy' = 0
    /\ swallowed' = {}
    /\ UNCHANGED dropdowns
    /\ \E h \in HelperRuns(4) : SaveGate(4, h, NoObs)

(***************************************************************************)
(* Resolution of an element through an ordered list of selectors.          *)
(***************************************************************************)
\* The elements a selector of the step-5 list can match: the suggestion
\* carrying the id, or the first item of a list box.
Elements == {"address-suggestion-0", "first-list-item"}

\* What the page gives for each selector.
Matches == [1 .. MaxSelectors -> {NoMatch} \cup Elements]

\* The list in its declared order.
selectors == [i \in 1 .. MaxSelectors |-> i]

\* A resolution that gives up after the first selector of the list.
dropdown_option_first_only(list, m) ==
    IF list = << >> \/ m[Head(list)] = NoMatch
    THEN [found |-> FALSE, element |-> NoMatch]
    ELSE [found |-> TRUE, element |-> m[Head(list)]]

RECURSIVE dropdown_option(_, _)
\* The loop over the list: the first selector that matches wins.
dropdown_option(list, m) ==
    IF list = << >> THEN [found |-> FALSE, element |-> NoMatch]
    ELSE IF m[Head(list)] # NoMatch
         THEN [found |-> TRUE, element |-> m[Head(list)]]
         ELSE dropdown_option(Tail(list), m)

\* Step 5: type the garaging address and click the first suggestion.
\* "clicked": the click went through.  "stale_refound": the click found the
\* suggestion stale and a re-find clicked it.  "stale_unclicked": it was
\* stale and every re-find failed; the loop ends and the step goes on all
\* the same.  A stale address input is re-found once at click, clear and
\* each key.  The step fails with what was raised either before the
\* selector loop, or after a selector matched: scrollIntoView or click()
\* on the suggestion raising something other than a stale reference, or
\* the reading of current_url for the log line raising after the click,
\* the re-find or the re-finds that all failed.
Step5 ==
    /\ UNCHANGED pending
    /\ pc = StepPc(5)
    /\ UNCHANGED << clickedBy, dropdowns >>
    /\ \E h \in HelperRuns(5) :
          \/ \E m \in Matches,
                o \in {"clicked", "stale_refound", "stale_unclicked"} :
               /\ dropdown_option(selectors, m).found
               /\ h.raised = NoFault
               /\ swallowed' = IF o = "stale_unclicked"
                               THEN {"address_suggestion"} ELSE {}
               /\ obs' = [Seen(h) EXCEPT
                             !.options = m,
                             !.resolved = dropdown_option(selectors, m).element,
                             !.refinds = IF o = "clicked" THEN 0 ELSE 1]
               /\ StepAdvanced(5)
          \/ \E m \in Matches :
               /\ ~dropdown_option(selectors, m).found
               /\ swallowed' = {}
               /\ obs' = [Seen(h) EXCEPT
                                       !.options = m]
               /\ StepFailed(5, ErrorResponse(
                      "Step 5 failed: Dropdown did not appear or could not find first option",
                      "ElementNotFound"))
          \/ \E e \in StepFaults(h), r \in 0 .. 1 :
               /\ swallowed' = {}
               /\ obs' = [Seen(h) EXCEPT
                                       !.refinds = r]
               /\ StepFailed(5, ErrorResponse(
                      "Step 5 failed: Failed to find or fill the address field: "
                          \o e.text, e.type))
          \/ \E m \in Matches, e \in StepFaults(h),
                o \in {"clicked", "stale_refound",
                       "stale_unclicked"} :
               /\ dropdown_option(selectors, m).found
               /\ swallowed' = IF o = "stale_unclicked"
                               THEN {"address_suggestion"} ELSE {}
               /\ obs' = [Seen(h) EXCEPT
                             !.options = m,
                             !.resolved = dropdown_option(selectors, m).element,
                             !.refinds = IF o = "clicked"
                                         THEN 0 ELSE 1]
               /\ StepFailed(5, ErrorResponse(
                      "Step 5 failed: Failed to find or fill the address field: "
                          \o e.text, e.type))

\* Step 6: first name, last name, date of birth, Save & continue; each has
\* an except-branch of its own that returns.  A stale input is re-found
\* once while typing, not at click() or clear().
Step6Parts ==
    { "Step 6 failed: Could not fill first name: ",
      "Step 6 failed: Could not fill last name: ",
      "Step 6 failed: Could not fill date of birth: ",
      "Step 6 failed: Failed to find, enable, or click the 'Save & continue' button: " }

Step6 ==
    /\ UNCHANGED pending
    /\ pc = StepPc(6)
    /\ clickedBy' = 0
    /\ swallowed' = {}
    /\ UNCHANGED dropdowns
    /\ \E h \in HelperRuns(6) :
          \/ \E part \in Step6Parts \ {SaveMessage(6)},
                e \in StepFaults(h), r \in 0 .. 1 :
               /\ obs' = [Seen(h) EXCEPT
                                       !.refinds = r]
               /\ StepFailed(6, ErrorResponse(part \o e.text, e.type))
          \/ SaveGate(6, h, NoObs)

(***************************************************************************)
(* select_custom_dropdown, seen from its caller: what the browser does     *)
(* during the call decides the boolean it returns.                         *)
(***************************************************************************)
\* input: the dropdown input was located.  open: the control region was
\* not found or scrollIntoView on it raised ("unreached"), or it was
\* opened by click(), by the script click after click() raised, or by
\* neither.  confirm: the wait for the clickable input timed out or
\* clearing raised ("uncleared"), or typing raised before any RETURN was
\* sent, or the RETURN key went through, or raised stale and the retry
\* went through, or raised stale and the re-find raised, or raised stale
\* and the second RETURN raised, or raised something else.  fault: what
\* is raised where something is.
DropdownBehaviours ==
    [input : BOOLEAN, open : {"unreached", "click", "js", "none"},
     confirm : {"uncleared", "unsent", "ok", "stale_ok", "stale_refind",
                "stale_fail", "fail"},
     fault : Exceptions]

\* What the body raises before a RETURN is sent: the wait for the input,
\* the search for the control or scrollIntoView, the script click after
\* click() raised, the wait for the clickable input or the keys sent
\* after clear() raised, a key of the typing loop.
DropdownFault(b) ==
    IF \/ ~b.input
       \/ b.open \in {"unreached", "none"}
       \/ b.confirm \in {"uncleared", "unsent"}
    THEN b.fault
    ELSE NoFault

\* What the first RETURN raises.
ReturnFault(b) ==
    IF b.confirm = "ok" THEN NoFault
    ELSE IF b.confirm = "fail" THEN TimeoutException
    ELSE StaleElementReferenceException

\* What the re-find of the input and the second RETURN raise.
RetryFault(b) == IF b.confirm = "stale_ok" THEN NoFault ELSE b.fault

\* The confirmation: RETURN in a try that returns True; its
\* `except StaleElementReferenceException` re-finds the input and sends
\* RETURN in a try of its own that returns True, whose `except Exception`
\* returns False; its `except Exception` returns False.
Confirmation(b) ==
    LET first == ReturnFault(b)
        retry == Try("Exception", RetryFault(b))
        other == Try("Exception", first)
    IN  IF first = NoFault
        THEN [returned |-> TRUE, raised |-> NoFault]
        ELSE IF Caught("StaleElementReferenceException", first)
             THEN [returned |-> ~retry.swallowed /\ retry.raised = NoFault,
                   raised |-> retry.raised]
             ELSE [returned |-> FALSE, raised |-> other.raised]

\* What the body of the function raises.
BodyFault(b) == FirstFault(<< DropdownFault(b), Confirmation(b).raised >>)

\* A selection that reports success once RETURN was sent, whatever the
\* key did.
select_custom_dropdown_unconfirmed(b) ==
    /\ b.input
    /\ b.open \in {"click", "js"}
    /\ b.confirm \notin {"uncleared", "unsent"}

\* The boolean the call returns: True from a confirmation that went
\* through, False from the handlers of the confirmation and from the
\* outer `except Exception`.
select_custom_dropdown(b) ==
    /\ DropdownFault(b) = NoFault
    /\ Confirmation(b).returned

\* A call without the outer try: what the body raises leaves the
\* function.
propagates_unwrapped(b) == BodyFault(b)

\* The exception that leaves the call: the whole body is inside
\* `try ... except Exception`, whose handler returns False.
propagates(b) == Try("Exception", BodyFault(b)).raised

\* What the field may display before the call: nothing, or a value the
\* page filled in.
Prefills == {"", "prefilled"}

\* What select_custom_dropdown does to the widget of field: the value
\* displayed before the call is never read; once the input and its control
\* are located the control is clicked open, the input is waited for and
\* cleared, the value is typed and RETURN is sent.
DropdownWidget(field, before, b) ==
    LET reached == b.input /\ b.open # "unreached"
        opened == reached /\ b.open # "none"
        cleared == opened /\ b.confirm # "uncleared"
        sent == cleared /\ b.confirm # "unsent"
        stale == sent /\ b.confirm \in {"stale_ok", "stale_refind",
                                         "stale_fail"}
    IN  [field |-> field,
         before |-> before,
         opened |-> opened,
         cleared |-> cleared,
         typed |-> sent,
         activations |-> IF ~reached THEN << >>
                         ELSE IF b.open = "click" THEN << "click" >>
                         ELSE << "click", "script" >>,
         first |-> IF ~sent THEN "none"
                   ELSE IF b.confirm = "ok" THEN "ok"
                   ELSE IF stale THEN "stale" ELSE "other",
         retry |-> IF ~stale THEN "none"
                   ELSE IF b.confirm = "stale_ok" THEN "ok" ELSE "raised",
         confirmations |-> IF ~sent THEN 0
                           ELSE IF b.confirm \in {"stale_ok", "stale_fail"}
                                THEN 2
                           ELSE 1,
         reresolved |-> IF stale THEN 1 ELSE 0,
         returned |-> select_custom_dropdown(b),
         raised |-> propagates(b)]

\* The fields select_custom_dropdown is called for.
DropdownFields == {"Year", "Make", "Model", "Employment", "Current Carrier"}

\* The widgets a call for a field can leave behind, by what it returns.
DropdownTable ==
    [field \in DropdownFields |->
        [returned \in BOOLEAN |->
            { DropdownWidget(field, before, b) :
                  before \in Prefills,
                  b \in { x \in DropdownBehaviours :
                             select_custom_dropdown(x) = returned } }]]

DropdownCalls(field, returned) == DropdownTable[field][returned]

\* What a call hands to its caller: the boolean, or the exception.
DropdownReturns(field, returned) ==
    { [returned |-> w.returned, raised |-> w.raised] :
          w \in DropdownCalls(field, returned) }

\* An optional dropdown, `if select_custom_dropdown(...): ... else:
\* logger.warning(...)`: a False is logged and passed over; an exception
\* that left the call is not handled there.
OptionalDropdown(w) ==
    [raised |-> w.raised, swallowed |-> w.raised = NoFault /\ ~w.returned]

(***************************************************************************)
(* The trim dropdown of step 7.                                            *)
(***************************************************************************)
\* located: the trim input and its control were found.  read: the
\* displayed value was read without an exception in the test.  before:
\* what the control displays.  logged: the second read of a displayed
\* value, for the log line of the preset branch, went through.  scrolled: scrollIntoView on the control went through.
\* open: the dropdown opened at the script click on the indicator, on the
\* control or on the input, or at none of them.  clickable: the wait for
\* the clickable input ended before its timeout.  focus: the focus script
\* went through or raised.  confirm: RETURN went through send_keys, or
\* send_keys raised and the script-dispatched key went through, or both
\* raised.
TrimBehaviours ==
    [located : BOOLEAN, read : BOOLEAN, before : Prefills, logged : BOOLEAN,
     scrolled : BOOLEAN, open : {"indicator", "control", "input", "none"},
     clickable : BOOLEAN, focus : {"ok", "raised"},
     confirm : {"keys", "script", "raised"}]

\* The selection protocol on a trim control that displays no value: scroll
\* to the control, open the dropdown (indicator, then control, then input),
\* wait for the clickable input, focus it and, when the focus script went
\* through, click it, then send RETURN by send_keys and, if that raises,
\* by script.  What raises outside the tries of the protocol ends it:
\* scrollIntoView, the wait for the clickable input, the scripted key.
TrimProtocol(t) ==
    IF ~t.scrolled
    THEN [NoTrim EXCEPT !.examined = TRUE, !.before = t.before,
                        !.failed = TRUE]
    ELSE [examined |-> TRUE,
          before |-> t.before,
          activations |-> IF t.open = "indicator" THEN << "indicator" >>
                          ELSE IF t.open = "control"
                               THEN << "indicator", "control" >>
                          ELSE << "indicator", "control", "input" >>,
          opened |-> t.open # "none",
          focused |-> t.clickable,
          clicked |-> t.clickable /\ t.focus = "ok",
          confirmations |-> IF ~t.clickable THEN 0
                            ELSE IF t.confirm = "keys" THEN 1 ELSE 2,
          failed |-> ~t.clickable \/ t.confirm = "raised"]

\* A trim selection that reads the displayed value and selects all the
\* same.
select_trim_unconditional(t) ==
    IF ~t.located \/ ~t.read THEN [NoTrim EXCEPT !.failed = TRUE]
    ELSE TrimProtocol(t)

\* The trim selection: when the input, its control or the displayed value
\* cannot be had the selection is given up; when the control displays a
\* value nothing is done but to read it once more for the log line, and a
\* raise there goes to the handler of the selection; else the protocol
\* runs.
select_trim(t) ==
    IF ~t.located \/ ~t.read THEN [NoTrim EXCEPT !.failed = TRUE]
    ELSE IF t.before # ""
         THEN [NoTrim EXCEPT !.examined = TRUE, !.before = t.before,
                             !.failed = ~t.logged]
    ELSE TrimProtocol(t)

\* What the trim selection can come to.
TrimRuns == { select_trim(t) : t \in TrimBehaviours }

\* The mandatory selections of step 7 with model first.
Step7Fields_reordered == << "Model", "Make", "Year" >>

\* Step 7, taken only when the request carries year, make and model:
\* year, make and model are selected in that order and the first failure
\* returns a SelectionError; trim is optional; the closing log line reads
\* current_url inside the step's try.
Step7Fields == << "Year", "Make", "Model" >>

Step7Messages ==
    << "Step 7 failed: Could not select vehicle year",
       "Step 7 failed: Could not select vehicle make",
       "Step 7 failed: Could not select vehicle model" >>

\* The except-branch of step 7.
Step7Failed(e) ==
    StepFailed(7, ErrorResponse("Step 7 failed: " \o e.text, e.type))

Step7 ==
    /\ UNCHANGED pending
    /\ pc = StepPc(7)
    /\ UNCHANGED clickedBy
    /\ IF VehicleSupplied(request)
         THEN \E h \in HelperRuns(7) :
              \/ \E n \in 1 .. 3 :
                  \* selections 1 .. n-1 returned True, selection n did not
                  /\ dropdowns' = dropdowns \o SubSeq(Step7Fields, 1, n)
                  /\ swallowed' = {}
                  /\ \E w \in DropdownCalls(Step7Fields[n], FALSE) :
                        /\ obs' = [Seen(h) EXCEPT
                                      !.widget = w,
                                      !.origin = IF w.raised # NoFault
                                                 THEN Step7Fields[n]
                                                 ELSE "none"]
                        /\ IF w.raised # NoFault
                             THEN Step7Failed(w.raised)
                             ELSE StepFailed(7, ErrorResponse(
                                      Step7Messages[n], "SelectionError"))
              \/ \E trim \in TrimRuns,
                    w \in DropdownCalls(Step7Fields[3], TRUE) :
                  \E r \in OptionalRuns("trim", trim.failed) :
                      /\ dropdowns' = dropdowns \o Step7Fields
                      /\ swallowed' = IF r.swallowed THEN {"trim"} ELSE {}
                      /\ IF r.raised # NoFault
                           THEN /\ obs' = [Seen(h) EXCEPT !.widget = w,
                                                          !.trim = trim,
                                                          !.origin = "trim"]
                                /\ Step7Failed(r.raised)
                           ELSE \/ /\ h.raised = NoFault
                                   /\ obs' = [Seen(h) EXCEPT !.widget = w,
                                                             !.trim = trim]
                                   /\ StepAdvanced(7)
                                \/ /\ obs' = [SeenAt(h, "closing") EXCEPT
                                                 !.widget = w, !.trim = trim]
                                   /\ \E e \in StepFaults(h) : Step7Failed(e)
         ELSE /\ pc' = StepPc(8)
              /\ UNCHANGED << session_vars, attempted, advanced, failed,
                              calls, lastOp, response, request, mine, prior,
                              results_vars, dropdowns >>
              /\ swallowed' = {}
              /\ obs' = NoObs

\* Step 8: "No" for another vehicle, then Save & continue.
Step8Parts ==
    { "Step 8 failed: Failed to click 'No' button: ",
      "Step 8 failed: Failed to find, enable, or click the 'Save & continue' button: " }

Step8 ==
    /\ UNCHANGED pending
    /\ pc = StepPc(8)
    /\ clickedBy' = 0
    /\ swallowed' = {}
    /\ UNCHANGED dropdowns
    /\ \E h \in HelperRuns(8) :
          \/ \E part \in Step8Parts \ {SaveMessage(8)},
                e \in StepFaults(h) :
               /\ obs' = Seen(h)
               /\ StepFailed(8, ErrorResponse(part \o e.text, e.type))
          \/ SaveGate(8, h, NoObs)

\* Step 9: ownership, primary use and miles are mandatory (a stale miles
\* input is re-found once while typing); the ownership duration dropdown
\* is optional; then Save & continue.
Step9 ==
    /\ UNCHANGED pending
    /\ pc = StepPc(9)
    /\ UNCHANGED << clickedBy, dropdowns >>
    /\ \E h \in HelperRuns(9) :
          \/ /\ \E e \in StepFaults(h), r \in 0 .. 1 :
                  /\ obs' = [SeenAt(h, "mandatory") EXCEPT !.refinds = r]
                  /\ StepFailed(9, FullErrorResponse(
                         "Step 9 failed: " \o e.text, e))
             /\ swallowed' = {}
          \/ \E fails \in BOOLEAN :
             \E r \in OptionalRuns("ownership_duration", fails) :
                   /\ swallowed' = IF r.swallowed
                                   THEN {"ownership_duration"} ELSE {}
                   /\ IF r.raised # NoFault
                        THEN /\ obs' = [Seen(h) EXCEPT
                                           !.origin = "ownership_duration"]
                             /\ StepFailed(9, FullErrorResponse(
                                    "Step 9 failed: " \o r.raised.text,
                                    r.raised))
                        ELSE SaveGate(9, h, NoObs)

\* Step 10: gender, marital status, credit score, bodily injury, email,
\* phone and military affiliation are mandatory; education, employment,
\* current carrier, insured length and violations are optional, each in a
\* try or an if of its own (skip is the set of those that failed); then
\* Save & continue.
Step10Optional ==
    {"education", "employment", "current_carrier", "insured_length",
     "violations"}

\* The parts of step 10 in the order of the code: the radios before
\* education, the optional parts with the bodily injury radio among them,
\* and email, phone and military affiliation.
Step10Order ==
    << "personal", "education", "employment", "current_carrier",
       "insured_length", "bodily_injury", "violations", "contact" >>

\* The parts run when part p raises.
Step10Upto(p) == { Step10Order[i] : i \in 1 .. p }

Step10Fields == << "Employment", "Current Carrier" >>

\* The optional sub-steps that are the two dropdown calls.
Step10Keys == << "employment", "current_carrier" >>

\* The except-branch of step 10.
Step10Failed(e) ==
    StepFailed(10, FullErrorResponse("Step 10 failed: " \o e.text, e))

\* The optional sub-steps among those named that were passed over.
Skipped(names, runs) == { n \in names : runs[n].swallowed }

Step10 ==
    /\ UNCHANGED pending
    /\ pc = StepPc(10)
    /\ UNCHANGED clickedBy
    /\ \E h \in HelperRuns(10) :
       \/ \* gender, marital status or credit score raised
          /\ obs' = SeenAt(h, "personal")
          /\ swallowed' = {}
          /\ UNCHANGED dropdowns
          /\ \E e \in StepFaults(h) : Step10Failed(e)
       \/ /\ h.raised = NoFault
          /\ \E skip \in SUBSET (Step10Optional \cap Step10Upto(4)) :
             \E edu \in OptionalRuns("education", "education" \in skip),
                x \in DropdownReturns(Step10Fields[1],
                                      "employment" \notin skip) :
             IF edu.raised # NoFault
             THEN /\ skip = {"education"}
                  /\ obs' = [Seen(h) EXCEPT !.origin = "education"]
                  /\ swallowed' = {}
                  /\ UNCHANGED dropdowns
                  /\ Step10Failed(edu.raised)
             ELSE IF x.raised # NoFault
             THEN /\ "current_carrier" \notin skip
                  /\ \E w \in DropdownCalls(Step10Fields[1], FALSE) :
                        /\ w.raised = x.raised
                        /\ obs' = [Seen(h) EXCEPT !.widget = w,
                                                  !.origin = "employment"]
                  /\ swallowed' = Skipped({"education"},
                                          [education |-> edu])
                  /\ dropdowns' = dropdowns \o SubSeq(Step10Fields, 1, 1)
                  /\ Step10Failed(x.raised)
             ELSE \E w \in DropdownCalls(Step10Fields[2],
                                         "current_carrier" \notin skip) :
                  /\ dropdowns' = dropdowns \o Step10Fields
                  /\ swallowed' =
                         Skipped({"education", "employment",
                                  "current_carrier"},
                                 [education |-> edu,
                                  employment |-> OptionalDropdown(x),
                                  current_carrier |-> OptionalDropdown(w)])
                  /\ IF w.raised # NoFault
                       THEN /\ obs' = [Seen(h) EXCEPT
                                          !.widget = w,
                                          !.origin = "current_carrier"]
                            /\ Step10Failed(w.raised)
                       ELSE \* the current carrier is done: on to insured
                            \* length
                            /\ obs' = [Seen(h) EXCEPT !.widget = w]
                            /\ attempted' = attempted \cup {10}
                            /\ pc' = "rest10"
                            /\ UNCHANGED << session_vars, advanced, failed,
                                            calls, lastOp, response, request,
                                            mine, prior, results_vars >>

\* Step 10 from insured length on: insured length, bodily injury,
\* violations, email, phone and military affiliation.  A stale email or
\* phone input is re-found once while typing (the re-find is made before
\* the step fails at a later call as well).
Step10Rest ==
    /\ UNCHANGED pending
    /\ pc = "rest10"
    /\ UNCHANGED << clickedBy, dropdowns >>
    /\ \E h \in HelperRuns(10),
          skip \in SUBSET (Step10Optional \ Step10Upto(4)) :
       \E length \in OptionalRuns("insured_length",
                                   "insured_length" \in skip) :
       IF length.raised # NoFault
       THEN /\ skip = {"insured_length"}
            /\ obs' = [Seen(h) EXCEPT !.origin = "insured_length"]
            /\ swallowed' = swallowed
            /\ Step10Failed(length.raised)
       ELSE \/ \* the bodily injury radio raised
               /\ "violations" \notin skip
               /\ obs' = SeenAt(h, "bodily_injury")
               /\ swallowed' = swallowed
                      \cup Skipped({"insured_length"},
                                   [insured_length |-> length])
               /\ \E e \in StepFaults(h) : Step10Failed(e)
            \/ /\ h.raised = NoFault
               /\ \E v \in OptionalRuns("violations",
                                          "violations" \in skip) :
                  LET passed == Skipped({"insured_length", "violations"},
                                        [insured_length |-> length,
                                         violations |-> v])
                  IN
                  /\ swallowed' = swallowed \cup passed
                  /\ IF v.raised # NoFault
                       THEN /\ obs' = [Seen(h) EXCEPT
                                          !.origin = "violations"]
                            /\ Step10Failed(v.raised)
                       ELSE \E n \in 0 .. 1 :
                            \/ \* email, phone or military affiliation
                               \* raised
                               /\ obs' = [SeenAt(h, "contact") EXCEPT
                                             !.refinds = n]
                               /\ \E e \in StepFaults(h) : Step10Failed(e)
                            \/ \* every sub-step is done: on to Save &
                               \* continue
                               /\ obs' = [Seen(h) EXCEPT !.refinds = n]
                               /\ pc' = "save10"
                               /\ UNCHANGED << session_vars, attempted,
                                               advanced, failed, calls,
                                               lastOp, response, request,
                                               mine, prior, results_vars >>

\* The Save & continue part of step 10.
Step10Save ==
    /\ UNCHANGED pending
    /\ pc = "save10"
    /\ UNCHANGED << clickedBy, dropdowns, swallowed >>
    /\ \E h \in HelperRuns(10) : SaveGate(10, h, NoObs)

\* Step 11: "Show quotes at this coverage", then wait for the URL change;
\* the step completes only when the wait saw it.  The step fails before
\* the wait, at the wait, or after it, at the read of current_url for the
\* log line.
Step11 ==
    /\ UNCHANGED pending
    /\ pc = StepPc(11)
    /\ clickedBy' = 0
    /\ swallowed' = {}
    /\ UNCHANGED dropdowns
    /\ \E h \in HelperRuns(11) :
          \/ /\ h.raised = NoFault
             /\ obs' = [Seen(h) EXCEPT
                                     !.verified = TRUE]
             /\ StepAdvanced(11)
          \/ /\ \E seen \in BOOLEAN :
                   obs' = [Seen(h) EXCEPT
                                        !.verified = seen]
             /\ \E e \in StepFaults(h) :
                  StepFailed(11, FullErrorResponse(
                      "Step 11 failed: Failed to click 'Show quotes at this coverage' button: "
                          \o e.text, e))

(***************************************************************************)
(* Texts of the page.  A text is a sequence of one-character strings, so   *)
(* that str.replace and str.strip can be computed as Python computes them. *)
(***************************************************************************)
\* A lookup that found no element / a variable still holding None.
NoElement == << "<none>" >>

RECURSIVE Join(_)
\* The Python string of a text.
Join(t) == IF t = << >> THEN "" ELSE Head(t) \o Join(Tail(t))

IsPrefix(p, t) == Len(p) <= Len(t) /\ SubSeq(t, 1, Len(p)) = p

RECURSIVE Replace(_, _, _)
\* str.replace(old, new), old non-empty: leftmost non-overlapping matches.
Replace(t, old, new) ==
    IF t = << >> THEN << >>
    ELSE IF IsPrefix(old, t)
         THEN new \o Replace(SubSeq(t, Len(old) + 1, Len(t)), old, new)
         ELSE << Head(t) >> \o Replace(Tail(t), old, new)

\* The characters str.strip() removes (those str.isspace() holds of), of
\* the ASCII characters: space, \t, \n, \r, \f, the vertical tab (0x0b)
\* and the four separators 0x1c to 0x1f.  A text of this module is a
\* sequence of ASCII characters.
Whitespace ==
    { " ", "\t", "\n", "\r", "\f",
      "", "", "", "", "" }

RECURSIVE LStrip(_)
LStrip(t) ==
    IF t # << >> /\ Head(t) \in Whitespace THEN LStrip(Tail(t)) ELSE t

RECURSIVE RStrip(_)
RStrip(t) ==
    IF t # << >> /\ t[Len(t)] \in Whitespace
    THEN RStrip(SubSeq(t, 1, Len(t) - 1))
    ELSE t

\* str.strip()
Strip(t) == RStrip(LStrip(t))

\* Python's `not x` for a text variable that may hold None.
Falsy(t) == t = NoElement \/ t = << >>

(***************************************************************************)
(* scrape_quotes_from_page.                                                *)
(*                                                                         *)
(* A card of the page is a record:                                         *)
(*   scroll  FALSE when scrollIntoView on the card raises                  *)
(*   logo    alt text of the logo image, NoElement when there is no image  *)
(*   price   text of [data-cy="results-card_price"], or NoElement          *)
(*   period  text of .results-card-v2__currency--period, or NoElement      *)
(*   rates   the div.rate blocks, each [amounts, dollar, period] with the  *)
(*           texts of its .rate__amount elements in document order and of  *)
(*           its .rate__dollar and .rate__period (or NoElement)            *)
(***************************************************************************)
\* company_name from the logo's alt text.
CompanyName(card) ==
    IF card.logo = NoElement THEN << "U", "n", "k", "n", "o", "w", "n" >>
    ELSE LET name == Strip(Replace(Replace(Replace(card.logo,
                         << " ", "l", "o", "g", "o" >>, << >>),
                         << "L", "o", "g", "o" >>, << >>),
                         << "l", "o", "g", "o" >>, << >>))
         IN  IF name = << >> THEN << "U", "n", "k", "n", "o", "w", "n" >>
             ELSE name

\* price and amount after method 1 (the consolidated price element).
Method1(card) ==
    IF card.price = NoElement \/ Strip(card.price) = << >>
    THEN [price |-> NoElement, amount |-> NoElement]
    ELSE LET amount_text == Strip(card.price)
             period == IF card.period = NoElement THEN << "/", "m", "o" >>
                       ELSE Strip(card.period)
         IN  [price |-> Strip(<< "$" >> \o amount_text \o period),
              amount |-> Strip(Replace(Replace(amount_text, << "$" >>, << >>),
                                       << "," >>, << >>))]

\* The price built from a rate block and one of its amounts.
RatePrice(rate, amount_text) ==
    LET dollar_sign == IF rate.dollar = NoElement \/ Strip(rate.dollar) = << >>
                       THEN << "$" >> ELSE Strip(rate.dollar)
        period == IF rate.period = NoElement THEN << >>
                  ELSE Strip(rate.period)
    IN  [price |-> Strip(dollar_sign \o amount_text \o period),
         amount |-> amount_text]

RECURSIVE Method2(_, _)
\* Method 2: each div.rate in turn, looking at its first .rate__amount only;
\* found is what the earlier methods left.
Method2(rates, found) ==
    IF rates = << >> THEN found
    ELSE LET rate == Head(rates)
         IN  IF rate.amounts # << >> /\ Strip(rate.amounts[1]) # << >>
             THEN RatePrice(rate, Strip(rate.amounts[1]))
             ELSE Method2(Tail(rates), found)

RECURSIVE FirstAmount(_)
\* The first non-empty text among amounts, << >> when there is none.
FirstAmount(amounts) ==
    IF amounts = << >> THEN << >>
    ELSE IF Strip(Head(amounts)) # << >> THEN Strip(Head(amounts))
         ELSE FirstAmount(Tail(amounts))

RECURSIVE Method3(_, _)
\* Method 3: every .rate__amount of the card in document order, each with
\* the div.rate around it.
Method3(rates, found) ==
    IF rates = << >> THEN found
    ELSE IF FirstAmount(Head(rates).amounts) # << >>
         THEN RatePrice(Head(rates), FirstAmount(Head(rates).amounts))
         ELSE Method3(Tail(rates), found)

\* A price search in which every method runs and the last one that finds
\* a price wins.
PriceSearch_overwriting(card) ==
    LET m1 == Method1(card)
        m2 == Method2(card.rates, m1)
        m3 == Method3(card.rates, m2)
    IN  [examined |-> << 1, 2, 3 >>, after |-> << m1, m2, m3 >>]

\* The search for the price of a card: method 1 always runs, methods 2 and
\* 3 each run when `not price or not amount`.  examined: the methods run,
\* in order; after: price and amount as each of the three places left them.
PriceSearch(card) ==
    LET m1 == Method1(card)
        second == Falsy(m1.price) \/ Falsy(m1.amount)
        m2 == IF second THEN Method2(card.rates, m1) ELSE m1
        third == Falsy(m2.price) \/ Falsy(m2.amount)
        m3 == IF third THEN Method3(card.rates, m2) ELSE m2
    IN  [examined |-> << 1 >> \o (IF second THEN << 2 >> ELSE << >>)
                             \o (IF third THEN << 3 >> ELSE << >>),
         after |-> << m1, m2, m3 >>]

\* The price of a card: what the search left at its end.
CardPrice(card) == PriceSearch(card).after[3].price

\* No search was made for the card (its scrollIntoView raised).
NoSearch == [examined |-> << >>, after |-> << >>]

\* The price search of every card of the loop.
CardSearches(cards) ==
    [i \in 1 .. Len(cards) |->
        IF cards[i].scroll THEN PriceSearch(cards[i]) ELSE NoSearch]

\* A location that gathers the cards of all three selectors.
LocateCards_merged(page) == page.v2 \o page.legacy \o page.leaf

\* The selectors consulted: each later one only `if not quote_cards`.
LayersConsulted(page) ==
    IF page.v2 # << >> THEN << "v2" >>
    ELSE IF page.legacy # << >> THEN << "v2", "legacy" >>
    ELSE << "v2", "legacy", "leaf" >>

\* The cards located: the new container, else the old one, else the cards
\* around the price elements.
LocateCards(page) ==
    IF page.v2 # << >> THEN page.v2
    ELSE IF page.legacy # << >> THEN page.legacy
    ELSE page.leaf

\* A scrape that emits a record for every card located, priced or not.
ScrapeCards_unfiltered(cards, plan_type, bodily_injury_value, comprehensive_deductible) ==
    [i \in 1 .. Len(cards) |->
        [company |-> Join(CompanyName(cards[i])),
         price |-> IF Falsy(CardPrice(cards[i])) THEN ""
                   ELSE Join(CardPrice(cards[i])),
         bodily_injury |-> bodily_injury_value,
         comprehensive_deductible |-> comprehensive_deductible,
         plan_type |-> plan_type]]

RECURSIVE ScrapeCards_aborting(_, _, _, _)
\* A loop that ends at the first card whose scrollIntoView raises.
ScrapeCards_aborting(cards, plan_type, bodily_injury_value, comprehensive_deductible) ==
    IF cards = << >> \/ ~Head(cards).scroll THEN << >>
    ELSE LET card == Head(cards)
             rest == ScrapeCards_aborting(Tail(cards), plan_type,
                                          bodily_injury_value,
                                          comprehensive_deductible)
         IN  IF ~Falsy(CardPrice(card))
             THEN << [company |-> Join(CompanyName(card)),
                      price |-> Join(CardPrice(card)),
                      bodily_injury |-> bodily_injury_value,
                      comprehensive_deductible |-> comprehensive_deductible,
                      plan_type |-> plan_type] >> \o rest
             ELSE rest

RECURSIVE ScrapeCards(_, _, _, _)
\* The loop over the cards: a card whose scrollIntoView raises is passed
\* over by the loop's except-branch, a card without a price is skipped.
ScrapeCards(cards, plan_type, bodily_injury_value, comprehensive_deductible) ==
    IF cards = << >> THEN << >>
    ELSE LET card == Head(cards)
             rest == ScrapeCards(Tail(cards), plan_type, bodily_injury_value,
                                 comprehensive_deductible)
         IN  IF card.scroll /\ ~Falsy(CardPrice(card))
             THEN << [company |-> Join(CompanyName(card)),
                      price |-> Join(CardPrice(card)),
                      bodily_injury |-> bodily_injury_value,
                      comprehensive_deductible |-> comprehensive_deductible,
                      plan_type |-> plan_type] >> \o rest
             ELSE rest

scrape_quotes_from_page(page, plan_type, bodily_injury_value, comprehensive_deductible) ==
    ScrapeCards(LocateCards(page), plan_type, bodily_injury_value,
                comprehensive_deductible)

(***************************************************************************)
(* The pages the results stage may show for a tier.                        *)
(***************************************************************************)
AcmeCard ==
    [scroll |-> TRUE,
     logo |-> << "A", "c", "m", "e", " ", "I", "n", "s", "u", "r", "a", "n",
                 "c", "e", " ", "l", "o", "g", "o" >>,
     price |-> << "$", "1", "2", "0" >>,
     period |-> << "/", "m", "o" >>,
     rates |-> << >>]

\* A card of the old markup: a rate block with dollar sign, amount, period.
LegacyCard ==
    [scroll |-> TRUE,
     logo |-> << "Z", "e", "b", " ", "L", "o", "g", "o" >>,
     price |-> NoElement,
     period |-> NoElement,
     rates |-> << [amounts |-> << << "9", "5" >> >>,
                   dollar |-> << "$" >>,
                   period |-> << "/", "m", "o" >>] >>]

\* A card rendered before its price settled.
PlaceholderCard ==
    [scroll |-> TRUE, logo |-> NoElement, price |-> << >>,
     period |-> NoElement, rates |-> << >>]

\* A card that goes stale before it is scrolled to.
StaleCard == [AcmeCard EXCEPT !.scroll = FALSE]

TierPages ==
    { [v2 |-> << AcmeCard, PlaceholderCard >>, legacy |-> << >>,
       leaf |-> << >>],
      [v2 |-> << >>, legacy |-> << LegacyCard, StaleCard >>,
       leaf |-> << >>] }

\* The hardcoded plan details of steps 12, 13 and 14.
PlanDetails ==
    [minimum |-> [bi |-> "$15k/$30k", comp |-> "0"],
     basic |-> [bi |-> "$25k/$50k", comp |-> "1000"],
     better |-> [bi |-> "$50k/$100k", comp |-> "1000"]]

(***************************************************************************)
(* The results stage, steps 12 to 14, and the end of start_bot.            *)
(***************************************************************************)
\* An except-branch of a tier step that returns an error payload instead
\* of going on with the next tier.
TierFailed_abort(tier, e, next) ==
    /\ quotes' = [quotes EXCEPT ![tier] = << >>]
    /\ tiers' = Append(tiers, tier)
    /\ response' = ErrorResponse("Step failed: " \o e.text, e.type)
    /\ pc' = "idle"
    /\ UNCHANGED << activated, shown, scraped >>

\* The except-branch of a tier step: the tier's collection is emptied and
\* the run goes on at next.
TierFailed(tier, e, next) ==
    /\ quotes' = [quotes EXCEPT ![tier] = << >>]
    /\ tiers' = Append(tiers, tier)
    /\ pc' = next
    /\ UNCHANGED << activated, shown, scraped, response >>

\* What each of the three scrape calls returns for each page.
TierQuotes ==
    [tier \in {"minimum", "basic", "better"} |->
        [page \in TierPages |->
            scrape_quotes_from_page(page, tier, PlanDetails[tier].bi,
                                    PlanDetails[tier].comp)]]

\* The cards of the page now shown are scraped and labelled with the
\* plan_type the calling step passes.
TierScraped(tier, page, next) ==
    /\ quotes' = [quotes EXCEPT ![tier] = TierQuotes[tier][page]]
    /\ scraped' = [scraped EXCEPT ![tier] =
                      [cards |-> LocateCards(page), shown |-> shown']]
    /\ tiers' = Append(tiers, tier)
    /\ pc' = next
    /\ UNCHANGED response

tier_frame == << session_vars, request, mine, prior, attempted, advanced,
                 failed, clickedBy, dropdowns, swallowed, calls, lastOp >>

\* Step 12: the minimum tier is the one shown on arrival; nothing is clicked.
Step12 ==
    /\ UNCHANGED pending
    /\ pc = StepPc(12)
    /\ obs' = NoObs
    /\ shown' = shown
    /\ \E page \in TierPages : TierScraped("minimum", page, StepPc(13))
    /\ UNCHANGED << tier_frame, activated >>

\* A tier step that scrapes without clicking the selector of its tier.
TierClicked_unselected(tier, next) ==
    /\ UNCHANGED << activated, shown >>
    /\ \E page \in TierPages : TierScraped(tier, page, next)

\* The click on the selector of tier (click(), else the script click) went
\* through; the page switches to the tier or stays as it is, and after a
\* pause of two to three seconds the cards are scraped without looking at
\* which tier is selected.
TierClicked(tier, next) ==
    /\ activated' = activated \cup {tier}
    /\ \E switched \in BOOLEAN, page \in TierPages :
          /\ shown' = IF switched THEN tier ELSE shown
          /\ TierScraped(tier, page, next)

\* Step 13: click the Basic selector, then scrape; a failure to locate or
\* click it empties the tier.
Step13 ==
    /\ UNCHANGED pending
    /\ pc = StepPc(13)
    /\ \E h \in HelperRuns(13) :
          /\ obs' = Seen(h)
          /\ \/ h.raised = NoFault /\ TierClicked("basic", StepPc(14))
             \/ \E e \in StepFaults(h) :
                  TierFailed("basic", e, StepPc(14))
    /\ UNCHANGED tier_frame

\* Step 14: the same for the Better selector.
Step14 ==
    /\ UNCHANGED pending
    /\ pc = StepPc(14)
    /\ \E h \in HelperRuns(14) :
          /\ obs' = Seen(h)
          /\ \/ h.raised = NoFault /\ TierClicked("better", "close")
             \/ \E e \in StepFaults(h) :
                  TierFailed("better", e, "close")
    /\ UNCHANGED tier_frame

\* An end of start_bot whose quit() is not inside a try: a raising quit()
\* reaches the outer handler, which returns the error payload.
Close_propagating ==
    /\ UNCHANGED pending
    /\ pc = "close"
    /\ \E q \in QuitOutcomes, e \in Exceptions :
          /\ live' = AfterQuit(live, driver, q)
          /\ driver' = IF QuitRaises(q) THEN driver ELSE None
          /\ calls' = Append(calls, Call("quit", driver, QuitRaises(q)))
          /\ response' = IF QuitRaises(q)
                         THEN ErrorResponse("Unexpected error: " \o e.text,
                                            e.type)
                         ELSE QuotesResponse(quotes)
    /\ pc' = "idle"
    /\ UNCHANGED << sessions, lastOp, run_vars >>

\* The end of start_bot: quit the browser inside a try (the handle is
\* cleared only if quit() returned) and return the three collections.
Close ==
    /\ UNCHANGED pending
    /\ pc = "close"
    /\ \E q \in QuitOutcomes :
          /\ live' = AfterQuit(live, driver, q)
          /\ driver' = IF QuitRaises(q) THEN driver ELSE None
          /\ calls' = Append(calls, Call("quit", driver, QuitRaises(q)))
    /\ response' = QuotesResponse(quotes)
    /\ pc' = "idle"
    /\ UNCHANGED << sessions, lastOp, run_vars >>

\* shutdown_event, run when the application stops: quit the browser of
\* the handle inside try / except-pass; the handle is not cleared and
\* nothing is returned.  No handler runs after it, and the requests that
\* wait are dropped.
shutdown_event ==
    /\ LoopFree
    /\ pending' = << >>
    /\ IF driver = None
         THEN /\ calls' = << >>
              /\ UNCHANGED live
         ELSE \E q \in QuitOutcomes :
                /\ live' = AfterQuit(live, driver, q)
                /\ calls' = << Call("quit", driver, QuitRaises(q)) >>
    /\ pc' = "down"
    /\ lastOp' = "shutdown"
    /\ Forget
    /\ UNCHANGED << driver, sessions, response >>

(***************************************************************************)
(* The specification.                                                      *)
(***************************************************************************)
Next ==
    \/ \E req \in StartRequest : start_bot(req)
    \/ Setup
    \/ Step1
    \/ Step2
    \/ Step3
    \/ Step4
    \/ Step5
    \/ Step6
    \/ Step7
    \/ Step8
    \/ Step9
    \/ Step10
    \/ Step10Rest
    \/ Step10Save
    \/ Step11
    \/ Step12
    \/ Step13
    \/ Step14
    \/ Close
    \/ get_status
    \/ stop_bot
    \/ shutdown_event

Spec == Init /\ [][Next]_vars

(***************************************************************************)
(* The server with clients that do not wait for a run to end: a request    *)
(* that arrives while a handler is running waits for the event loop.       *)
(***************************************************************************)
\* Requests that wait at one time (the listen backlog holds many more).
MaxPending == 1

\* The payload these clients send to start_bot.
ServerRequests ==
    { [year |-> NoneStr, make |-> NoneStr, model |-> NoneStr] }

Arrivals ==
    {Request("status"), Request("stop")}
        \cup { StartReq(req) : req \in ServerRequests }

\* The start requests among those waiting.
Starts(queue) == SelectSeq(queue, LAMBDA r : r.op = "start")

\* A request arrives while a handler is running: it waits.  (One that
\* arrives while the loop is free is dispatched at once: the handler
\* actions.)
Arrive ==
    /\ ~LoopFree
    /\ pc # "down"
    /\ Len(pending) < MaxPending
    /\ \E r \in Arrivals :
          /\ r.op = "start" =>
                sessions + Len(Starts(pending)) < MaxSessions
          /\ pending' = Append(pending, r)
    /\ UNCHANGED << session_vars, pc, run_vars, calls, lastOp, response >>

ServerNext ==
    \/ Arrive
    \/ \E req \in ServerRequests : start_bot(req)
    \/ Setup
    \/ Step1
    \/ Step2
    \/ Step3
    \/ Step4
    \/ Step5
    \/ Step6
    \/ Step7
    \/ Step8
    \/ Step9
    \/ Step10
    \/ Step10Rest
    \/ Step10Save
    \/ Step11
    \/ Step12
    \/ Step13
    \/ Step14
    \/ Close
    \/ get_status
    \/ stop_bot
    \/ shutdown_event

ServerSpec == Init /\ [][ServerNext]_vars

(***************************************************************************)
(* The typing loops, taken on their own: one send_keys call per character; *)
(* a call that raises a stale reference is followed by a re-find of the    *)
(* input and one more call for the same character, outside any try; what   *)
(* else a call raises, and what the re-find raises, leaves the loop.       *)
(***************************************************************************)
first_name == << "m", "o", "a", "z", "a", "m" >>
last_name == << "a", "l", "i" >>
miles_value == << "1", "0", "0", "0" >>

\* The texts typed by three of the loops.
TypedValues == {first_name, last_name, miles_value}

\* One send_keys call for character i.
Send(i, unit, raised) == [at |-> i, unit |-> unit, raised |-> raised]

\* What one turn of the loop can meet: the call goes through; it raises a
\* stale reference and, after the re-find, the second call goes through
\* or raises; it raises a stale reference and the re-find raises; it
\* raises something else, which the loop does not catch.
SendOutcomes == {"ok", "stale_ok", "stale_raised", "stale_unfound", "other"}

\* A loop body whose stale branch re-finds the input and goes on to the
\* next character.
send_keys_dropping(ty, o) ==
    LET i == ty.next
        c == ty.value[i]
    IN  IF o = "ok"
        THEN [ty EXCEPT !.sends = Append(@, Send(i, c, FALSE)),
                        !.next = i + 1]
        ELSE [ty EXCEPT !.sends = Append(@, Send(i, c, TRUE)),
                        !.refinds = @ + 1,
                        !.next = i + 1]

\* The body of the loop for the character ty is at, meeting o.
send_keys(ty, o) ==
    LET i == ty.next
        c == ty.value[i]
    IN  IF o = "ok"
        THEN [ty EXCEPT !.sends = Append(@, Send(i, c, FALSE)),
                        !.next = i + 1]
        ELSE IF o = "stale_ok"
        THEN [ty EXCEPT !.sends = @ \o << Send(i, c, TRUE),
                                          Send(i, c, FALSE) >>,
                        !.refinds = @ + 1,
                        !.next = i + 1]
        ELSE IF o = "stale_raised"
        THEN [ty EXCEPT !.sends = @ \o << Send(i, c, TRUE),
                                          Send(i, c, TRUE) >>,
                        !.refinds = @ + 1,
                        !.failed = TRUE]
        ELSE IF o = "stale_unfound"
        THEN [ty EXCEPT !.sends = Append(@, Send(i, c, TRUE)),
                        !.refinds = @ + 1,
                        !.failed = TRUE]
        ELSE [ty EXCEPT !.sends = Append(@, Send(i, c, TRUE)),
                        !.failed = TRUE]

\* A loop is about to type one of the texts.
TypingInit ==
    /\ driver = 1
    /\ live = {1}
    /\ sessions = 1
    /\ pc = "typing"
    /\ request = [year |-> NoneStr, make |-> NoneStr, model |-> NoneStr]
    /\ mine = 1
    /\ prior = None
    /\ attempted = {}
    /\ advanced = {}
    /\ failed = 0
    /\ clickedBy = 0
    /\ dropdowns = << >>
    /\ swallowed = {}
    /\ activated = {}
    /\ tiers = << >>
    /\ quotes = NoQuotes
    /\ shown = "minimum"
    /\ scraped = NotScraped
    /\ \E value \in TypedValues :
          obs = [NoObs EXCEPT !.typing = [NoTyping EXCEPT !.value = value]]
    /\ calls = << >>
    /\ lastOp = "start"
    /\ response = Pending
    /\ pending = << >>

typing_frame == << session_vars, pc, record_vars, clickedBy, swallowed,
                   calls, lastOp, response, pending >>

\* Where a typing loop runs: taken on its own, or in steps 6 and 9 of a
\* call.
TypingPcs == {"typing", StepPc(6), StepPc(9)}

\* One turn of the loop.
TypeChar ==
    /\ pc \in TypingPcs
    /\ ~obs.typing.failed
    /\ obs.typing.next <= Len(obs.typing.value)
    /\ \E o \in SendOutcomes :
          obs' = [obs EXCEPT !.typing = send_keys(@, o)]
    /\ UNCHANGED typing_frame

\* The loop is over.
TypeDone ==
    /\ pc \in TypingPcs
    /\ obs.typing.value # << >>
    /\ ~obs.typing.failed
    /\ ~obs.typing.completed
    /\ obs.typing.next > Len(obs.typing.value)
    /\ obs' = [obs EXCEPT !.typing.completed = TRUE]
    /\ UNCHANGED typing_frame

TypingNext ==
    \/ TypeChar
    \/ TypeDone

TypingSpec == TypingInit /\ [][TypingNext]_vars

(***************************************************************************)
(* scrape_quotes_from_page, taken on its own over more pages than the      *)
(* tiers of a run are given.                                               *)
(***************************************************************************)
\* A card whose price element shows the currency sign alone, beside a rate
\* block.
DollarCard ==
    [scroll |-> TRUE,
     logo |-> << "D", "o", "e", " ", "l", "o", "g", "o" >>,
     price |-> << "$" >>,
     period |-> NoElement,
     rates |-> LegacyCard.rates]

\* A card with the price element and a rate block.
MixedCard == [AcmeCard EXCEPT !.rates = LegacyCard.rates]

\* A card whose rate block has an empty amount (a line feed and a
\* vertical tab) before the amount.
DeepCard ==
    [scroll |-> TRUE,
     logo |-> NoElement,
     price |-> NoElement,
     period |-> NoElement,
     rates |-> << [amounts |-> << << "\n", "" >>,
                                << "\t", "8", "0", "\n" >> >>,
                   dollar |-> NoElement,
                   period |-> NoElement] >>]

\* What one card selector may find.
CardLists ==
    { << >>,
      << AcmeCard, PlaceholderCard >>,
      << LegacyCard, StaleCard, MixedCard >>,
      << DollarCard, DeepCard >> }

ScrapePages == [v2 : CardLists, legacy : CardLists, leaf : CardLists]

\* The scrape is about to look at one of the pages.
ScrapeInit ==
    /\ driver = 1
    /\ live = {1}
    /\ sessions = 1
    /\ pc = "scrape"
    /\ request = [year |-> NoneStr, make |-> NoneStr, model |-> NoneStr]
    /\ mine = 1
    /\ prior = None
    /\ attempted = {}
    /\ advanced = {}
    /\ failed = 0
    /\ clickedBy = 0
    /\ dropdowns = << >>
    /\ swallowed = {}
    /\ activated = {}
    /\ tiers = << >>
    /\ quotes = NoQuotes
    /\ shown = "minimum"
    /\ scraped = NotScraped
    /\ \E page \in ScrapePages :
          obs = [NoObs EXCEPT !.scrape = [NotScraping EXCEPT
                                            !.page = page,
                                            !.state = "waiting"]]
    /\ calls = << >>
    /\ lastOp = "start"
    /\ response = Pending
    /\ pending = << >>

\* The three find_elements blocks that fill quote_cards.
ScrapeLocate ==
    /\ pc = "scrape"
    /\ obs.scrape.state = "waiting"
    /\ obs' = [obs EXCEPT
                  !.scrape.consulted = LayersConsulted(obs.scrape.page),
                  !.scrape.cards = LocateCards(obs.scrape.page),
                  !.scrape.state = "located"]
    /\ UNCHANGED typing_frame

\* The loop over quote_cards and the return of scraped_quotes.
ScrapeLoop ==
    /\ pc = "scrape"
    /\ obs.scrape.state = "located"
    /\ obs' = [obs EXCEPT
                  !.scrape.records =
                      ScrapeCards(obs.scrape.cards, "minimum",
                                  PlanDetails.minimum.bi,
                                  PlanDetails.minimum.comp),
                  !.scrape.searches = CardSearches(obs.scrape.cards),
                  !.scrape.state = "returned"]
    /\ UNCHANGED typing_frame

ScrapeNext ==
    \/ ScrapeLocate
    \/ ScrapeLoop

ScrapeSpec == ScrapeInit /\ [][ScrapeNext]_vars

(***************************************************************************)
(* The loops of start_bot, run turn by turn inside the call: the poll for  *)
(* an enabled button of steps 4, 6, 8, 9 and 10, the selector loop of step *)
(* 5 with the re-find loop of its stale branch, and the typing loops of    *)
(* steps 6 and 9.  The clock counts half seconds.                          *)
(***************************************************************************)
\* Seconds a button is polled for.
max_wait_time == 10

\* A poll whose condition never turns false.
poll_continues_always(start_time, now) == TRUE

\* `while time.time() - start_time < max_wait_time`.
poll_continues(start_time, now) == now - start_time < 2 * max_wait_time

\* The steps that poll their button.
PollSteps == {4, 6, 8, 9, 10}

\* Where the call is while it polls the button of step k.
LoopPc(k) == IF k = 10 THEN "save10" ELSE StepPc(k)

\* The typing loops that come before the poll of step k.
TypedBefore(k) ==
    IF k = 6 THEN << first_name, last_name >>
    ELSE IF k = 9 THEN << miles_value >>
    ELSE << >>

\* No typing loop of the step is running.
TypingOver == obs.typing.value = << >> \/ obs.typing.completed \/ obs.typing.failed

\* The next typing loop of step k is entered: the first one when none ran,
\* the one after the loop that completed.
TypingEntered ==
    /\ \E k \in {6, 9}, i \in 1 .. 2 :
          /\ pc = StepPc(k)
          /\ i <= Len(TypedBefore(k))
          /\ IF i = 1 THEN obs.typing = NoTyping
             ELSE /\ obs.typing.value = TypedBefore(k)[i - 1]
                  /\ obs.typing.completed
          /\ obs.loop = NoLoop
          /\ obs' = [NoObs EXCEPT !.typing = [NoTyping EXCEPT
                                              !.value = TypedBefore(k)[i]]]
    /\ UNCHANGED typing_frame

\* The typing loops of step k have all run to their end.
Typed(k) ==
    IF TypedBefore(k) = << >> THEN TRUE
    ELSE /\ obs.typing.value = TypedBefore(k)[Len(TypedBefore(k))]
         /\ obs.typing.completed

\* start_time = time.time() and the while loop is entered; the clock is
\* read from that moment on.  What was seen of the step before is dropped.
PollEntered ==
    /\ \E k \in PollSteps :
          /\ pc = LoopPc(k)
          /\ obs.loop = NoLoop
          /\ Typed(k)
          /\ obs' = [NoObs EXCEPT !.typing = obs.typing, !.loop = [NoLoop EXCEPT
                                             !.kind = "poll",
                                             !.step = k,
                                             !.start_time = 0,
                                             !.now = 0,
                                             !.state = "running"]]
    /\ UNCHANGED typing_frame

\* The poll loop is in an iteration.
Polling ==
    /\ obs.loop.kind = "poll"
    /\ obs.loop.state = "running"
    /\ pc = LoopPc(obs.loop.step)

\* An iteration that reads disabled as None: break.
PollEnabled ==
    /\ Polling
    /\ poll_continues(obs.loop.start_time, obs.loop.now)
    /\ obs' = [obs EXCEPT !.loop.state = "enabled"]
    /\ UNCHANGED typing_frame

\* An iteration that reads disabled as set: human_delay(0.5, 1.0) and the
\* button is found again (a raise there is passed over after the sleep).
PollDisabled ==
    /\ Polling
    /\ poll_continues(obs.loop.start_time, obs.loop.now)
    /\ \E d \in 1 .. 2 :
          /\ obs.loop.now + d <= MaxClock
          /\ obs' = [obs EXCEPT !.loop.now = @ + d,
                                !.loop.seen = @ \cup {"disabled"}]
    /\ UNCHANGED typing_frame

\* An iteration whose get_attribute raises: `except Exception: pass`, with
\* no sleep.
PollRaised ==
    /\ Polling
    /\ poll_continues(obs.loop.start_time, obs.loop.now)
    /\ obs' = [obs EXCEPT !.loop.seen = @ \cup {"raised"}]
    /\ UNCHANGED typing_frame

\* The wall clock moves on.
Tick ==
    /\ Polling
    /\ obs.loop.now < MaxClock
    /\ obs' = [obs EXCEPT !.loop.now = @ + 1]
    /\ UNCHANGED typing_frame

\* The condition of the while is false: its else-branch logs the warning.
PollExpired ==
    /\ Polling
    /\ ~poll_continues(obs.loop.start_time, obs.loop.now)
    /\ obs' = [obs EXCEPT !.loop.state = "expired"]
    /\ UNCHANGED typing_frame

\* The for loop over the selectors of step 5 is entered; the page decides
\* what each selector matches.
SelectorsEntered ==
    /\ pc = StepPc(5)
    /\ obs.loop = NoLoop
    /\ \E m \in Matches :
          obs' = [NoObs EXCEPT !.options = m,
                             !.resolved = NoMatch,
                             !.loop = [NoLoop EXCEPT !.kind = "selectors",
                                                     !.step = 5,
                                                     !.at = 1,
                                                     !.state = "running"]]
    /\ UNCHANGED typing_frame

\* The for loop over the selectors is in an iteration.
Selecting ==
    /\ pc = StepPc(5)
    /\ obs.loop.kind = "selectors"
    /\ obs.loop.state = "running"

\* wait.until timed out for the selector: continue.
SelectorTried ==
    /\ Selecting
    /\ obs.loop.at <= MaxSelectors
    /\ obs.options[selectors[obs.loop.at]] = NoMatch
    /\ obs' = [obs EXCEPT !.loop.at = @ + 1,
                          !.loop.seen = @ \cup {"raised"}]
    /\ UNCHANGED typing_frame

\* wait.until returned an element: break.
SelectorFound ==
    /\ Selecting
    /\ obs.loop.at <= MaxSelectors
    /\ obs.options[selectors[obs.loop.at]] # NoMatch
    /\ obs' = [obs EXCEPT !.resolved = obs.options[selectors[obs.loop.at]],
                          !.loop.state = "found"]
    /\ UNCHANGED typing_frame

\* The list of selectors is used up.
SelectorsExhausted ==
    /\ Selecting
    /\ obs.loop.at > MaxSelectors
    /\ obs' = [obs EXCEPT !.loop.state = "exhausted"]
    /\ UNCHANGED typing_frame

\* click() on the suggestion raised a stale reference and the re-find by
\* id raised: the for loop over the same selectors is entered.
RefindEntered ==
    /\ pc = StepPc(5)
    /\ obs.loop.kind = "selectors"
    /\ obs.loop.state = "found"
    /\ obs' = [obs EXCEPT !.loop = [NoLoop EXCEPT !.kind = "refind",
                                                  !.step = 5,
                                                  !.at = 1,
                                                  !.state = "running"]]
    /\ UNCHANGED typing_frame

\* The re-find loop is in an iteration.
Refinding ==
    /\ pc = StepPc(5)
    /\ obs.loop.kind = "refind"
    /\ obs.loop.state = "running"

\* find_element or click() raised for the selector: continue.
RefindMissed ==
    /\ Refinding
    /\ obs.loop.at <= MaxSelectors
    /\ obs' = [obs EXCEPT !.loop.at = @ + 1,
                          !.loop.seen = @ \cup {"raised"}]
    /\ UNCHANGED typing_frame

\* The element was found again and clicked: break.
RefindClicked ==
    /\ Refinding
    /\ obs.loop.at <= MaxSelectors
    /\ obs' = [obs EXCEPT !.loop.state = "refound"]
    /\ UNCHANGED typing_frame

\* Every selector raised: the loop ends and the step goes on.
RefindExhausted ==
    /\ Refinding
    /\ obs.loop.at > MaxSelectors
    /\ obs' = [obs EXCEPT !.loop.state = "unclicked"]
    /\ UNCHANGED typing_frame

\* The loop the call is in, if any, has been left.
LoopsOver == obs.loop.state # "running" /\ TypingOver

\* The poll the rest of the step goes on from: how it was left, "none"
\* when the step ends before it.
PollLeft == IF obs.loop.kind = "poll" THEN obs.loop.state ELSE "none"

\* Step k returns its error payload with this message before the fault.
Says(k, part) ==
    /\ failed' = k
    /\ \E e \in CallOutcomes \ {NoFault} : response'.message = part \o e.text

\* The rest of step 4 after its loop: the step fails before the poll or
\* goes on from the way the poll was left.
RunStep4 ==
    /\ LoopsOver
    /\ Step4
    /\ obs'.poll = PollLeft

\* The rest of step 5.  Before the selector loop the step can only fail;
\* after a list that is used up it returns ElementNotFound; after a match
\* the click went through or the re-find by id did; after the re-find
\* loop the suggestion was clicked again or was not.
RunStep5 ==
    /\ LoopsOver
    /\ Step5
    /\ IF obs.loop.kind = "none"
         THEN /\ failed' = 5
              /\ obs'.options = NoOptions
              /\ response'.error_type # "ElementNotFound"
         ELSE /\ obs'.options = obs.options
              /\ obs.loop.state = "exhausted" =>
                    failed' = 5 /\ response'.error_type = "ElementNotFound"
              /\ obs.loop.state = "found" =>
                    obs'.refinds = 0 \/ swallowed' = {}
              /\ obs.loop.state = "refound" =>
                    obs'.refinds = 1 /\ swallowed' = {}
              /\ obs.loop.state = "unclicked" =>
                    swallowed' = {"address_suggestion"}

\* The rest of step 6: a typing loop that raised fails the step under the
\* message of its field; so does what raises before the loop of the next
\* field; after both loops come the date of birth and Save & continue.
RunStep6 ==
    /\ LoopsOver
    /\ Step6
    /\ obs'.poll = PollLeft
    /\ LET first == "Step 6 failed: Could not fill first name: "
           last == "Step 6 failed: Could not fill last name: "
       IN  IF obs.typing.value = last_name
           THEN IF obs.typing.completed
                THEN ~Says(6, first) /\ ~Says(6, last)
                ELSE Says(6, last)
           ELSE IF obs.typing.value = first_name /\ obs.typing.completed
                THEN Says(6, last)
                ELSE Says(6, first)

\* The rest of step 8.
RunStep8 ==
    /\ LoopsOver
    /\ Step8
    /\ obs'.poll = PollLeft

\* The rest of step 9: until the miles are typed only the mandatory part
\* can end the step; once they are, it is behind.
RunStep9 ==
    /\ LoopsOver
    /\ Step9
    /\ obs'.poll = PollLeft
    /\ IF Typed(9) THEN obs'.origin # "mandatory"
       ELSE failed' = 9 /\ obs'.origin = "mandatory"

\* The rest of the Save & continue part of step 10.
RunStep10Save ==
    /\ LoopsOver
    /\ Step10Save
    /\ obs'.poll = PollLeft

\* The server when the call that is followed arrives: the sessions
\* created before were closed, the last of them by stop_bot.
RunInit ==
    /\ driver = None
    /\ live = {}
    /\ sessions = MaxSessions - 1
    /\ pc = "idle"
    /\ request = [year |-> NoneStr, make |-> NoneStr, model |-> NoneStr]
    /\ mine = None
    /\ prior = None
    /\ attempted = {}
    /\ advanced = {}
    /\ failed = 0
    /\ clickedBy = 0
    /\ dropdowns = << >>
    /\ swallowed = {}
    /\ activated = {}
    /\ tiers = << >>
    /\ quotes = NoQuotes
    /\ shown = "minimum"
    /\ scraped = NotScraped
    /\ obs = NoObs
    /\ calls = << Call("quit", MaxSessions - 1, FALSE) >>
    /\ lastOp = "stop"
    /\ response = [status |-> "success",
                   message |-> "Browser closed successfully"]
    /\ pending = << >>

\* The payloads of the call that is followed: no vehicle, and a vehicle.
RunRequests ==
    ServerRequests \cup
        { [year |-> "2018", make |-> "Toyota", model |-> "Camry"] }

\* A start_bot call from its entry to its return.
RunNext ==
    \/ \E req \in RunRequests : start_bot(req)
    \/ Setup
    \/ Step1
    \/ Step2
    \/ Step3
    \/ PollEntered
    \/ PollEnabled
    \/ PollDisabled
    \/ PollRaised
    \/ Tick
    \/ PollExpired
    \/ RunStep4
    \/ SelectorsEntered
    \/ SelectorTried
    \/ SelectorFound
    \/ SelectorsExhausted
    \/ RefindEntered
    \/ RefindMissed
    \/ RefindClicked
    \/ RefindExhausted
    \/ RunStep5
    \/ TypingEntered
    \/ TypeChar
    \/ TypeDone
    \/ RunStep6
    \/ Step7
    \/ RunStep8
    \/ RunStep9
    \/ Step10
    \/ Step10Rest
    \/ RunStep10Save
    \/ Step11
    \/ Step12
    \/ Step13
    \/ Step14
    \/ Close

\* What the thread of the call does by itself once the browser call
\* before it has returned or timed out: the next statement is executed,
\* and the clock advances.  What an iteration of a poll reads (PollEnabled,
\* PollDisabled, PollRaised) is the page's choice and is not forced.
Progress ==
    \/ Setup
    \/ Step1
    \/ Step2
    \/ Step3
    \/ PollEntered
    \/ Tick
    \/ PollExpired
    \/ RunStep4
    \/ SelectorsEntered
    \/ SelectorTried
    \/ SelectorFound
    \/ SelectorsExhausted
    \/ RefindEntered
    \/ RefindMissed
    \/ RefindClicked
    \/ RefindExhausted
    \/ RunStep5
    \/ TypingEntered
    \/ TypeChar
    \/ TypeDone
    \/ RunStep6
    \/ Step7
    \/ RunStep8
    \/ RunStep9
    \/ Step10
    \/ Step10Rest
    \/ RunStep10Save
    \/ Step11
    \/ Step12
    \/ Step13
    \/ Step14
    \/ Close

RunFairness == WF_vars(Progress)

RunSpec == RunInit /\ [][RunNext]_vars /\ RunFairness

(***************************************************************************)
(* Properties.                                                             *)
(***************************************************************************)
\* start_bot has returned and nothing was called since.
StartReturned == pc = "idle" /\ lastOp = "start"

IsError(r) == "status" \in DOMAIN r /\ r.status = "error"

QuoteKeys ==
    {"minimum_plan_quotes", "basic_plan_quotes", "better_plan_quotes",
     "minimum_quotes_count", "basic_quotes_count", "better_quotes_count"}

\* The request gives year, make and model (None and "" give nothing).
AllGiven(req) ==
    /\ req.year \notin {NoneStr, ""}
    /\ req.make \notin {NoneStr, ""}
    /\ req.model \notin {NoneStr, ""}

\* The steps a run with request req must go through before the results.
MandatoryStages(req) ==
    IF AllGiven(req) THEN 1 .. 11 ELSE (1 .. 11) \ {7}

Range(f) == { f[i] : i \in DOMAIN f }

\* C1: whatever path start_bot returns by, the session it created is no
\* longer running when it returns.
C1_SessionQuitOnReturn ==
    (StartReturned /\ mine # None) => mine \notin live

\* C2: at most one browser session is running, in every reachable state.
C2_AtMostOneLive == Cardinality(live) <= 1

\* C3: when start_bot found a handle set on entry, then once the new
\* session exists the prior one is gone and the new one is the only
\* session running.
C3_PriorTornDownFirst ==
    (pc \notin {"idle", "down"} /\ prior # None) =>
        (prior \notin live /\ live = {mine})

\* C4: the wizard halts on the first mandatory step that fails: the
\* mandatory steps before it have all advanced, the failing step is the
\* last one in which anything was attempted, start_bot has returned an
\* error payload, and no tier was activated or scraped.
C4_HaltsOnFirstFailure ==
    failed # 0 =>
        /\ pc = "idle"
        /\ failed \in MandatoryStages(request)
        /\ advanced = { k \in MandatoryStages(request) : k < failed }
        /\ attempted = advanced \cup {failed}
        /\ activated = {}
        /\ tiers = << >>
        /\ quotes = NoQuotes
        /\ lastOp = "start" => IsError(response)

C4_Witness ==
    /\ StartReturned
    /\ failed = 8
    /\ advanced = 1 .. 7
    /\ IsError(response)

\* C5 as stated: get_status with no session answers status "no_session".
C5_StatusNoSession ==
    (lastOp = "status" /\ driver = None) => response.status = "no_session"

\* C6: after stop_bot returned from a call that found a handle set, the
\* handle is cleared and that session is no longer running, whether or not
\* quit() raised.
C6_StopClearsHandle ==
    (lastOp = "stop" /\ calls # << >>) =>
        (driver = None /\ calls[1].on \notin live)

\* C7 as stated: the status of stop_bot is one of "no_session", "success",
\* "error".
C7_StopStatusNoSession ==
    lastOp = "stop" => response.status \in {"no_session", "success", "error"}

\* C7 amended: stop_bot returns a status and a non-empty message; the
\* status is "no_browser" exactly when no handle was set (no browser call,
\* handle still absent), "success" when quit() returned and "error" when it
\* raised.
C7_StopStatus ==
    lastOp = "stop" =>
        /\ DOMAIN response = {"status", "message"}
        /\ response.message # ""
        /\ IF calls = << >>
             THEN response.status = "no_browser" /\ driver = None
             ELSE /\ Len(calls) = 1
                  /\ calls[1].call = "quit"
                  /\ response.status =
                        IF calls[1].raised THEN "error" ELSE "success"

C7_Witness ==
    /\ lastOp = "stop"
    /\ calls # << >>
    /\ calls[1].raised
    /\ response.status = "error"

\* C8: start_bot returns either an error payload (status "error", message,
\* error type, possibly a diagnostic key) without any quote key, or the
\* payload of three collections with three counts equal to their lengths;
\* the latter only when every mandatory step up to step 11 advanced.
C8_TwoShapes ==
    StartReturned =>
        \/ /\ IsError(response)
           /\ {"status", "message", "error_type"} \subseteq DOMAIN response
           /\ DOMAIN response \cap QuoteKeys = {}
           /\ DOMAIN response \subseteq
                 {"status", "message", "error_type", "suggestion",
                  "full_error"}
        \/ /\ DOMAIN response = QuoteKeys
           /\ response.minimum_quotes_count = Len(response.minimum_plan_quotes)
           /\ response.basic_quotes_count = Len(response.basic_plan_quotes)
           /\ response.better_quotes_count = Len(response.better_plan_quotes)
           /\ advanced = MandatoryStages(request)

C8_Witness ==
    /\ StartReturned
    /\ DOMAIN response = QuoteKeys
    /\ response.minimum_quotes_count = 1
    /\ response.basic_quotes_count = 0
    /\ response.better_quotes_count = 1

\* The run has left step 7 behind (by running it or by skipping it).
PastStep7 ==
    \/ pc \in {StepPc(8), StepPc(9), StepPc(10), "rest10", "save10",
              StepPc(11),
               StepPc(12), StepPc(13), StepPc(14), "close"}
    \/ pc = "idle" /\ 6 \in advanced

\* C9: step 7 is attempted exactly when year, make and model are all given
\* (None and the empty string count as not given); otherwise no vehicle
\* dropdown is touched, step 7 reports no error, and the run goes on with
\* step 8.
C9_VehicleStage ==
    /\ 7 \in attempted => AllGiven(request)
    /\ (PastStep7 /\ AllGiven(request)) =>
           (7 \in attempted /\ dropdowns # << >> /\ dropdowns[1] = "Year")
    /\ ~AllGiven(request) =>
           /\ Range(dropdowns) \cap Range(Step7Fields) = {}
           /\ failed # 7
           /\ 7 \notin advanced
           /\ (pc = "idle" /\ 6 \in advanced) => 8 \in attempted

C9_Witness ==
    /\ pc = StepPc(9)
    /\ request.year = "2018"
    /\ request.make = NoneStr
    /\ attempted = (1 .. 8) \ {7}
    /\ dropdowns = << >>

\* C10: once step 11 has advanced, start_bot returns the quotes payload
\* whatever fails afterwards: all three tiers are gone through in order, and
\* a tier whose selector could not be activated has an empty collection.
C10_TierFailureDegrades ==
    11 \in advanced =>
        /\ failed = 0
        /\ StartReturned =>
              /\ DOMAIN response = QuoteKeys
              /\ tiers = << "minimum", "basic", "better" >>
              /\ response.minimum_plan_quotes = quotes.minimum
              /\ response.basic_plan_quotes = quotes.basic
              /\ response.better_plan_quotes = quotes.better
              /\ \A t \in {"basic", "better"} :
                    t \notin activated => quotes[t] = << >>

C10_Witness ==
    /\ StartReturned
    /\ 11 \in advanced
    /\ "basic" \notin activated
    /\ "better" \in activated
    /\ quotes.basic = << >>
    /\ Len(response.better_plan_quotes) = 1

Tiers == {"minimum", "basic", "better"}

\* A price can be extracted from the card.
HasPrice(card) == card.scroll /\ ~Falsy(CardPrice(card))

\* C11: for every tier, no record has an empty price, the records are as
\* many as the located cards from which a price can be extracted (so at
\* most one per card and at most as many as the cards), and a card without
\* a price fails nothing.
C11_PricedRecordsOnly ==
    \A t \in Tiers :
        LET cards == scraped[t].cards
        IN  /\ \A i \in DOMAIN quotes[t] : quotes[t][i].price # ""
            /\ Len(quotes[t]) =
                  Cardinality({ i \in DOMAIN cards : HasPrice(cards[i]) })
            /\ Len(quotes[t]) <= Len(cards)
            /\ cards # << >> => failed = 0

C11_Witness ==
    /\ StartReturned
    /\ DOMAIN response = QuoteKeys
    /\ Len(scraped.basic.cards) = 2
    /\ ~HasPrice(scraped.basic.cards[2])
    /\ Len(response.basic_plan_quotes) = 1

\* C12: a card scraped for the basic tier whose logo alt text is
\* "Acme Insurance logo" and whose price element shows "$120" with period
\* "/mo" gives a record with company "Acme Insurance", price "$120/mo" and
\* plan type "basic".
C12_AcmeCardRecord ==
    \A i \in DOMAIN scraped.basic.cards :
        LET card == scraped.basic.cards[i]
        IN  ( /\ card.scroll
              /\ Join(card.logo) = "Acme Insurance logo"
              /\ Join(card.price) = "$120"
              /\ Join(card.period) = "/mo" ) =>
            \E j \in DOMAIN quotes.basic :
                /\ quotes.basic[j].company = "Acme Insurance"
                /\ quotes.basic[j].price = "$120/mo"
                /\ quotes.basic[j].plan_type = "basic"

\* C13: the plan type of every record is the tier the page had active
\* when its card was scraped.
C13_TierMatchesPage ==
    \A t \in Tiers :
        \A i \in DOMAIN quotes[t] : quotes[t][i].plan_type = scraped[t].shown

\* C14: a select_custom_dropdown call on a field that already displays a
\* value opens nothing, clears nothing and types nothing.
C14_PrefilledSkipped ==
    (obs.widget.field # "none" /\ obs.widget.before # "") =>
        (~obs.widget.opened /\ ~obs.widget.cleared /\ ~obs.widget.typed)

\* C15: when the driver could not be created, start_bot returns the
\* initialisation error and the run has attempted nothing: the last
\* browser call is the failed creation, no stealth script was injected, no
\* page was opened, no step was entered and no tier was scraped.
C15_NoStageWithoutSession ==
    (StartReturned /\ mine = None) =>
        /\ IsError(response)
        /\ "suggestion" \in DOMAIN response
        /\ calls # << >>
        /\ calls[Len(calls)] = Call("Chrome", None, TRUE)
        /\ \A i \in DOMAIN calls :
              calls[i].call \notin {"execute_cdp_cmd", "get"}
        /\ attempted = {}
        /\ advanced = {}
        /\ dropdowns = << >>
        /\ tiers = << >>
        /\ obs = NoObs

C15_Witness ==
    /\ StartReturned
    /\ mine = None
    /\ prior # None
    /\ IsError(response)
    /\ Len(calls) = 2

\* The texts str(e) can take.
FaultTexts ==
    { e.text : e \in Exceptions \cup {HelperFault, TimeoutException} }

\* The message prefixes that name a step or an operation.
StagePrefixes ==
    { "Failed to initialize Chrome driver: ",
      "Step 2 failed: Failed to find or click the 'Other' button: ",
      "Step 3 failed: Failed to find or click the 'Sometime in the future' button: ",
      "Step 5 failed: Failed to find or fill the address field: ",
      "Step 7 failed: ",
      "Step 9 failed: ",
      "Step 10 failed: ",
      "Step 11 failed: Failed to click 'Show quotes at this coverage' button: " }
    \cup Step6Parts \cup Step8Parts
    \cup { SaveMessage(k) : k \in {4, 6, 8, 9, 10} }

\* The messages without an exception text that name a step or an
\* operation.
StageMessages ==
    { "Failed to find or click the button after trying all methods",
      "Step 5 failed: Dropdown did not appear or could not find first option" }
    \cup Range(Step7Messages)

NamesStageOrOperation(msg) ==
    \/ msg \in StageMessages
    \/ \E p \in StagePrefixes, t \in FaultTexts : msg = p \o t

\* C16: every error start_bot returns has status "error", an error type
\* and a non-empty message that names the failing step or operation.
C16_StructuredFailure ==
    (StartReturned /\ IsError(response)) =>
        /\ {"status", "message", "error_type"} \subseteq DOMAIN response
        /\ response.error_type # ""
        /\ response.message # ""
        /\ NamesStageOrOperation(response.message)

\* C17: when the poll for the enabled Save & continue button expired,
\* click() is still called on the button.
C17_ExpiryStillClicks == obs.poll = "expired" => obs.clicked

\* C18: start_bot returns a stale element reference as a step failure
\* only after the element was re-found and the interaction retried.
C18_StaleNeverSurfaced ==
    ( /\ StartReturned
      /\ failed # 0
      /\ response.error_type = "StaleElementReferenceException" ) =>
        obs.refinds > 0

\* list with the entries at i and i + 1 exchanged.
Swap(list, i) ==
    [j \in DOMAIN list |->
        IF j = i THEN list[i + 1] ELSE IF j = i + 1 THEN list[i] ELSE list[j]]

\* The selectors of the list that match something on the page seen by
\* step 5.
Matching == { i \in 1 .. MaxSelectors : obs.options[selectors[i]] # NoMatch }

\* C19: when exactly one selector of the list matches, exchanging it with
\* the failing selector before it changes neither the success of the
\* resolution nor the element resolved: step 5 went on with the element
\* that selector matches, to its end or to a fault of the browser that is
\* not the element-not-found error.
C19_OrderInvariant ==
    Cardinality(Matching) = 1 =>
        \A i \in 1 .. (MaxSelectors - 1) :
            (i + 1) \in Matching =>
                /\ dropdown_option(Swap(selectors, i), obs.options)
                       = dropdown_option(selectors, obs.options)
                /\ dropdown_option(selectors, obs.options).found
                /\ obs.resolved = obs.options[selectors[i + 1]]
                /\ \/ 5 \in advanced
                   \/ /\ failed = 5
                      /\ response.error_type # "ElementNotFound"

C19_Witness ==
    /\ pc = StepPc(6)
    /\ Matching = {MaxSelectors}
    /\ obs.resolved = "first-list-item"
    /\ 5 \in advanced

\* C20: no helper lets an exception out, whatever its browser calls
\* raise, and no step of a run ends by an exception that came out of a
\* helper: the step that called the helper goes on after it.
C20_HelpersNeverPropagate ==
    /\ \A o \in BrowserFaults :
          /\ human_scroll(o).raised = NoFault
          /\ human_mouse_move(o).raised = NoFault
    /\ \A o \in InteractionFaults :
          random_page_interaction(o).raised = NoFault
    /\ \A k \in 1 .. 14 : \A h \in HelperRuns(k) : h.raised = NoFault
    /\ obs.origin # "helper"

C20_Witness ==
    /\ pc = StepPc(5)
    /\ obs.helpers = {"human_scroll", "human_mouse_move"}
    /\ obs.origin = "none"
    /\ 4 \in advanced
    /\ failed = 0

\* C21: while a start_bot call is running the event loop starts no other
\* handler: every step taken is a step of that call or the arrival of a
\* request, which waits; no handler returns (lastOp stays "start"), no
\* other session is created, the record of the run is not reset, and the
\* handle is touched only by the run itself when it quits at its end.
C21_NoInterleaving ==
    [][pc \notin {"idle", "down"} =>
          /\ lastOp = "start"
          /\ lastOp' = "start"
          /\ sessions' = sessions
          /\ mine' = mine
          /\ request' = request
          /\ driver' # driver => pc' = "idle"
          /\ \/ pending' = pending
             \/ /\ \E r \in Arrivals : pending' = Append(pending, r)
                /\ UNCHANGED << session_vars, pc, run_vars, calls, lastOp,
                                response >>]_vars

C21_Witness ==
    /\ pc = StepPc(5)
    /\ pending = << Request("stop") >>
    /\ driver = mine
    /\ driver \in live
    /\ lastOp = "start"

\* C22: every wizard step that moved on to the next one did so after a
\* check that the page changed (here: the wait for another URL) succeeded.
C22_AdvanceVerified ==
    \A k \in 1 .. 11 :
       (pc = StepPc(k + 1) /\ k \in advanced /\ (k + 1) \notin attempted)
           => obs.verified

\* C23: the step-1 methods run in their order until one clicks: the
\* methods run are 1 .. m when method m clicked and all four when none
\* did, at most one method clicks, and the element-not-found return needs
\* all four to have failed; in step 5 the element clicked is the match of
\* the first selector that matches, and the element-not-found return needs
\* no selector to match.
C23_FirstStrategyWins ==
    /\ (1 \in attempted /\ 2 \notin attempted
           /\ (pc = StepPc(2) \/ StartReturned)) =>
          /\ Len(obs.clicks) <= 1
          /\ obs.tried = 1 .. (IF obs.clicks = << >> THEN 4
                               ELSE obs.clicks[1])
          /\ failed = 1 <=> obs.clicks = << >>
          /\ failed = 1 => /\ response.error_type = "ElementNotFoundError"
                           /\ obs.tried = 1 .. 4
    /\ (pc = StepPc(6) /\ 5 \in advanced /\ 6 \notin attempted) =>
          /\ Matching # {}
          /\ \A i \in Matching :
                (\A j \in Matching : i <= j) =>
                    obs.resolved = obs.options[selectors[i]]
    /\ (StartReturned /\ failed = 5
           /\ response.error_type = "ElementNotFound") => Matching = {}

C23_Witness ==
    /\ pc = StepPc(2)
    /\ 1 \in advanced
    /\ obs.tried = {1, 2, 3}
    /\ obs.clicks = << 3 >>

\* C24: the tiers are collected in the order minimum, basic, better; the
\* selector of minimum is never activated; a selector is activated only in
\* the step of its own tier; and the cards of basic and of better are
\* scraped only once the selector of that tier was activated.
C24_TierOrder ==
    /\ tiers = SubSeq(<< "minimum", "basic", "better" >>, 1, Len(tiers))
    /\ "minimum" \notin activated
    /\ activated \subseteq Range(tiers)
    /\ \A t \in {"basic", "better"} :
          scraped[t] # NoScrape => t \in activated

C24_Witness ==
    /\ StartReturned
    /\ tiers = << "minimum", "basic", "better" >>
    /\ activated = {"basic", "better"}
    /\ \A t \in Tiers : scraped[t] # NoScrape

\* C25: a select_custom_dropdown call whose control opened neither at
\* click() nor at the script click goes on to activate the input itself.
C25_OpenFallsBackToInput ==
    ( /\ obs.widget.field # "none"
      /\ obs.widget.activations # << >>
      /\ ~obs.widget.opened ) =>
        obs.widget.activations = << "click", "script", "input" >>

\* C26: a select_custom_dropdown call confirms with RETURN at most twice:
\* a first RETURN that raises a stale reference is followed by one retry,
\* which re-finds the input once and sends RETURN again when the re-find
\* returned, any other outcome of the first RETURN by neither, and the
\* call returns True exactly when a RETURN went through.
C26_ConfirmAtMostTwice ==
    obs.widget.field # "none" =>
        /\ obs.widget.confirmations <= 2
        /\ obs.widget.reresolved <= 1
        /\ obs.widget.first = "stale" =>
              /\ obs.widget.reresolved = 1
              /\ obs.widget.retry # "none"
              /\ obs.widget.confirmations \in 1 .. 2
              /\ obs.widget.retry = "ok" => obs.widget.confirmations = 2
        /\ obs.widget.first # "stale" =>
              /\ obs.widget.reresolved = 0
              /\ obs.widget.retry = "none"
              /\ obs.widget.confirmations
                    = (IF obs.widget.first = "none" THEN 0 ELSE 1)
        /\ obs.widget.returned <=>
              (obs.widget.first = "ok" \/ obs.widget.retry = "ok")

C26_Witness ==
    /\ pc = "rest10"
    /\ obs.widget.field = "Current Carrier"
    /\ obs.widget.first = "stale"
    /\ obs.widget.retry = "ok"
    /\ obs.widget.returned

\* The send_keys calls of the loop that went through / that raised.
Delivered == SelectSeq(obs.typing.sends, LAMBDA x : ~x.raised)
Raised(i) == { j \in DOMAIN obs.typing.sends :
                  obs.typing.sends[j].raised /\ obs.typing.sends[j].at = i }

\* The characters of the text for which a send_keys call raised.
Troubled == { i \in DOMAIN obs.typing.value : Raised(i) # {} }

\* C27: the characters delivered by a typing loop are, in order and once
\* each, the first characters of the text, and all of the text when the
\* loop completed; a character whose call raised once is sent once more
\* after one re-find, unless that raise (not a stale reference, or a
\* re-find that raised) ended the loop with a failure; a character whose
\* call raised twice ends the loop with a failure; the input is re-found
\* at most once per character, and once for each character that raised in
\* a loop that did not fail.
C27_TypingExact ==
    /\ Len(Delivered) <= Len(obs.typing.value)
    /\ \A j \in DOMAIN Delivered :
          Delivered[j].at = j /\ Delivered[j].unit = obs.typing.value[j]
    /\ obs.typing.completed =>
          /\ Len(Delivered) = Len(obs.typing.value)
          /\ ~obs.typing.failed
    /\ obs.typing.failed =>
          /\ obs.typing.sends # << >>
          /\ obs.typing.sends[Len(obs.typing.sends)].raised
    /\ \A i \in DOMAIN obs.typing.value :
          /\ Cardinality(Raised(i)) <= 2
          /\ Cardinality(Raised(i)) = 1 =>
                \A j \in Raised(i) :
                    \/ /\ j < Len(obs.typing.sends)
                       /\ obs.typing.sends[j + 1]
                             = Send(i, obs.typing.value[i], FALSE)
                    \/ /\ j = Len(obs.typing.sends)
                       /\ obs.typing.failed
                       /\ Len(Delivered) = i - 1
          /\ Cardinality(Raised(i)) = 2 =>
                /\ obs.typing.failed
                /\ Len(Delivered) = i - 1
                /\ Raised(i) = {Len(obs.typing.sends) - 1,
                                Len(obs.typing.sends)}
    /\ obs.typing.refinds <= Cardinality(Troubled)
    /\ obs.typing.refinds >= Cardinality(Troubled) - 1
    /\ ~obs.typing.failed => obs.typing.refinds = Cardinality(Troubled)

C27_Witness ==
    /\ obs.typing.completed
    /\ obs.typing.value = first_name
    /\ obs.typing.refinds = 2
    /\ Len(obs.typing.sends) = 8

\* The sub-steps that are optional.
OptionalSubSteps == {"trim", "ownership_duration"} \cup Step10Optional

\* The parts of the steps that have optional sub-steps, in the order of
\* the code.
PartOrder ==
    << "Year", "Make", "Model", "trim", "closing" >> \o
    << "mandatory", "ownership_duration" >> \o
    Step10Order \o << "save" >>

\* The parts that come after part n in its step.
PartsAfter(n) ==
    { PartOrder[j] : j \in { i \in DOMAIN PartOrder :
                                \E m \in DOMAIN PartOrder :
                                   PartOrder[m] = n /\ m < i } }

\* C28: the failure of an optional sub-step is passed over: no step ends
\* by an exception raised in an optional sub-step, and a step in which one
\* failed goes on with the sub-steps after it: it completes, or it ends at
\* a part that comes later.
C28_OptionalNeverFails ==
    /\ obs.origin \notin OptionalSubSteps
    /\ \A n \in swallowed \cap OptionalSubSteps :
          \/ failed = 0
          \/ /\ failed \in {7, 9, 10}
             /\ obs.origin \in PartsAfter(n)

C28_Witness ==
    /\ StartReturned
    /\ failed = 10
    /\ swallowed = Step10Optional
    /\ obs.origin = "contact"
    /\ response.error_type = "TimeoutException"

\* C29: the vehicle selections are made in the order year, make, model; a
\* SelectionError comes from step 7 alone and names the first selection
\* that returned False, after which no further selection is made and the
\* trim is not looked at; an optional dropdown that returned False leaves
\* its step to go on.
C29_SelectionOrder ==
    /\ 7 \in attempted =>
          /\ dropdowns # << >>
          /\ \A i \in DOMAIN dropdowns :
                i <= 3 => dropdowns[i] = << "Year", "Make", "Model" >>[i]
    /\ (StartReturned /\ IsError(response)
           /\ response.error_type = "SelectionError") =>
          /\ failed = 7
          /\ Len(dropdowns) \in 1 .. 3
          /\ response.message
                = "Step 7 failed: Could not select vehicle "
                    \o << "year", "make", "model" >>[Len(dropdowns)]
          /\ obs.widget.field = dropdowns[Len(dropdowns)]
          /\ ~obs.widget.returned
          /\ obs.trim = NoTrim
    /\ (StartReturned /\ failed = 7 /\ Len(dropdowns) < 3) =>
          response.error_type = "SelectionError"
    /\ (obs.widget.field \in Range(Step10Fields) /\ ~obs.widget.returned) =>
          (pc = "rest10" /\ failed = 0)

C29_Witness ==
    /\ StartReturned
    /\ failed = 7
    /\ dropdowns = << "Year", "Make" >>
    /\ response.error_type = "SelectionError"
    /\ obs.widget.activations = << "click", "script" >>

\* C30 as stated: when the trim control displays a value as it is read,
\* nothing is done to the trim dropdown and step 7 completes.
C30_TrimPresetCompletes ==
    (obs.trim.examined /\ obs.trim.before # "") =>
        /\ obs.trim.activations = << >>
        /\ ~obs.trim.opened
        /\ ~obs.trim.focused
        /\ ~obs.trim.clicked
        /\ obs.trim.confirmations = 0
        /\ pc = StepPc(8)
        /\ 7 \in advanced

\* C30 amended: when the trim control displays a value as it is read,
\* nothing is done to the trim dropdown (no opening, no focus, no click, no
\* RETURN); a failure of the trim (the second read of the value, for the
\* log line, raising) is passed over and never ends the step; step 7 then
\* completes unless the read of current_url on its closing line raises, in
\* which case start_bot returns the "Step 7 failed" payload.
C30_TrimPresetSkipped ==
    (obs.trim.examined /\ obs.trim.before # "") =>
        /\ obs.trim.activations = << >>
        /\ ~obs.trim.opened
        /\ ~obs.trim.focused
        /\ ~obs.trim.clicked
        /\ obs.trim.confirmations = 0
        /\ obs.trim.failed <=> "trim" \in swallowed
        /\ obs.origin # "trim"
        /\ \/ pc = StepPc(8) /\ 7 \in advanced
           \/ /\ StartReturned
              /\ failed = 7
              /\ response.message
                    \in { "Step 7 failed: " \o e.text : e \in Exceptions }

C30_Witness ==
    /\ pc = StepPc(8)
    /\ 7 \in advanced
    /\ obs.trim.examined
    /\ obs.trim.before = "prefilled"
    /\ obs.widget.field = "Model"

\* The card selectors in the order of the code.
LayerOrder == << "v2", "legacy", "leaf" >>

\* C31: the card selectors are consulted in their order, each later one
\* only when every earlier one found no card, and the cards processed are
\* those of the last one consulted: the first that found any.
C31_LayeredLocation ==
    obs.scrape.state \in {"located", "returned"} =>
        LET n == Len(obs.scrape.consulted)
        IN  /\ n \in 1 .. 3
            /\ obs.scrape.consulted = SubSeq(LayerOrder, 1, n)
            /\ \A j \in 1 .. (n - 1) : obs.scrape.page[LayerOrder[j]] = << >>
            /\ n < 3 => obs.scrape.page[LayerOrder[n]] # << >>
            /\ obs.scrape.cards = obs.scrape.page[LayerOrder[n]]

C31_Witness ==
    /\ obs.scrape.state = "returned"
    /\ obs.scrape.consulted = LayerOrder
    /\ obs.scrape.cards = << LegacyCard, StaleCard, MixedCard >>
    /\ obs.scrape.page.v2 = << >>

\* No price and no amount yet.
NoPrice == [price |-> NoElement, amount |-> NoElement]

\* What each shape of the card yields when looked at on its own.
Shapes(card) ==
    << Method1(card), Method2(card.rates, NoPrice),
       Method3(card.rates, NoPrice) >>

\* The first shape of the card that yields a non-empty amount, 0 when none
\* does.
FirstShape(card) ==
    IF \E n \in 1 .. 3 : ~Falsy(Shapes(card)[n].amount)
    THEN CHOOSE n \in 1 .. 3 :
            /\ ~Falsy(Shapes(card)[n].amount)
            /\ \A k \in 1 .. (n - 1) : Falsy(Shapes(card)[k].amount)
    ELSE 0

\* The price of that shape; when no shape yields an amount, what the price
\* element left.
FirstShapePrice(card) ==
    Shapes(card)[IF FirstShape(card) = 0 THEN 1 ELSE FirstShape(card)].price

\* The located cards that are scrolled to and have a price by it.
PricedCards ==
    SelectSeq(obs.scrape.cards,
              LAMBDA c : c.scroll /\ ~Falsy(FirstShapePrice(c)))

\* C32 as stated: the rate block is examined only when the price element
\* gave no price, the secondary path only when both gave none, and a price
\* found by an earlier shape is the price at the end.
C32_FirstPriceKept ==
    obs.scrape.state = "returned" =>
        \A i \in DOMAIN obs.scrape.searches :
           LET s == obs.scrape.searches[i]
           IN  s.examined # << >> =>
                 /\ 2 \in Range(s.examined) => Falsy(s.after[1].price)
                 /\ 3 \in Range(s.examined) => Falsy(s.after[2].price)
                 /\ \A n \in 1 .. 2 :
                       ~Falsy(s.after[n].price) =>
                           s.after[3].price = s.after[n].price

\* C32 amended: the price of every record is the price given by the first
\* of the three shapes of its card that yields a non-empty amount (the
\* price element, then the first amount of a rate block, then any amount
\* of a rate block); the shapes examined are those up to that one (all
\* three when none yields an amount), and a price that came with a
\* non-empty amount is the price at the end.
C32_FirstShapeWins ==
    obs.scrape.state = "returned" =>
        /\ Len(obs.scrape.records) = Len(PricedCards)
        /\ \A j \in DOMAIN obs.scrape.records :
              j <= Len(PricedCards) =>
                  obs.scrape.records[j].price
                      = Join(FirstShapePrice(PricedCards[j]))
        /\ \A i \in DOMAIN obs.scrape.searches :
              LET s == obs.scrape.searches[i]
                  first == FirstShape(obs.scrape.cards[i])
              IN  s.examined # << >> =>
                    /\ s.examined = [n \in 1 .. (IF first = 0 THEN 3
                                                  ELSE first) |-> n]
                    /\ \A n \in 1 .. 2 :
                          (~Falsy(s.after[n].price)
                              /\ ~Falsy(s.after[n].amount)) =>
                              s.after[3].price = s.after[n].price

\* The card whose price element shows the currency sign alone: the rate
\* block is examined and its price replaces the one the price element left.
C32_Witness ==
    /\ obs.scrape.state = "returned"
    /\ obs.scrape.cards = << DollarCard, DeepCard >>
    /\ obs.scrape.searches[1].examined = << 1, 2 >>
    /\ Join(obs.scrape.searches[1].after[1].price) = "$$/mo"
    /\ obs.scrape.records[1].price = "$95/mo"

\* The located cards whose scrollIntoView went through.
ScrolledCards == SelectSeq(obs.scrape.cards, LAMBDA c : c.scroll)

\* C33: a card whose scraping raises is left out and nothing else is: the
\* records returned are those of the other located cards, in order, one
\* for each that has a price, whether they stand before or after it.
C33_CardFailureIsolated ==
    obs.scrape.state = "returned" =>
        obs.scrape.records =
            ScrapeCards_unfiltered(
                SelectSeq(ScrolledCards, LAMBDA c : ~Falsy(CardPrice(c))),
                "minimum", PlanDetails.minimum.bi, PlanDetails.minimum.comp)

C33_Witness ==
    /\ obs.scrape.state = "returned"
    /\ obs.scrape.page.v2 = << LegacyCard, StaleCard, MixedCard >>
    /\ Len(obs.scrape.records) = 2
    /\ obs.scrape.records[1].company = "Zeb"
    /\ obs.scrape.records[2].company = "Acme Insurance"

\* C34: every start_bot call returns a response: the call that has been
\* entered reaches its return, whatever its loops meet, the poll whose
\* every read of the attribute raises included.
C34_StartReturns ==
    (lastOp = "start" /\ pc # "idle") ~> (StartReturned /\ response # Pending)

\* Inside a call, the poll of step 6 was left by the clock after every
\* one of its iterations raised.
C34_Witness ==
    /\ pc = StepPc(6)
    /\ lastOp = "start"
    /\ response = Pending
    /\ 5 \in advanced
    /\ obs.typing.value = last_name
    /\ obs.typing.completed
    /\ obs.loop.kind = "poll"
    /\ obs.loop.step = 6
    /\ obs.loop.state = "expired"
    /\ obs.loop.seen = {"raised"}
    /\ obs.loop.now - obs.loop.start_time >= 2 * max_wait_time

\* C35 as stated: once start_bot, get_status or stop_bot has returned, the
\* global handle is None or is the handle of a session that is running.
C35_HandleNeverStale ==
    (pc = "idle" /\ lastOp \in {"start", "status", "stop"}) =>
        (driver = None \/ driver \in live)

\* C36 as stated: step 5 advances to step 6 only after the address
\* suggestion was clicked.
C36_SuggestionClicked ==
    (pc = StepPc(6) /\ 5 \in advanced) =>
        "address_suggestion" \notin swallowed

\* start_bot has returned from a run that went through the three tiers and
\* whose last browser call, the quit(), raised.
QuitFailedAtEnd ==
    /\ StartReturned
    /\ Len(tiers) = 3
    /\ calls # << >>
    /\ calls[Len(calls)] = Call("quit", mine, TRUE)

\* C37: when the quit() at the end of a run that went through every stage
\* raises, start_bot still returns the success payload with the three
\* collections as they were scraped, not an error.
C37_QuitFailureKeepsData ==
    QuitFailedAtEnd =>
        /\ ~IsError(response)
        /\ DOMAIN response = QuoteKeys
        /\ response.minimum_plan_quotes = quotes.minimum
        /\ response.basic_plan_quotes = quotes.basic
        /\ response.better_plan_quotes = quotes.better

C37_Witness ==
    /\ QuitFailedAtEnd
    /\ driver = mine
    /\ response.minimum_plan_quotes # << >>
    /\ response.better_quotes_count = Len(quotes.better)

\* C38: no select_custom_dropdown call lets an exception out: it returns
\* False when the input was not located, the control did not open, clearing
\* or typing raised or no RETURN went through, and True otherwise; the
\* step that made a failing call sees the False, never an exception of the
\* call.
C38_DropdownNeverRaises ==
    /\ obs.widget.field # "none" =>
          /\ obs.widget.raised = NoFault
          /\ ~obs.widget.returned <=>
                \/ obs.widget.activations = << >>
                \/ ~obs.widget.opened
                \/ ~obs.widget.typed
                \/ obs.widget.first = "other"
                \/ obs.widget.retry = "raised"
    /\ obs.origin \notin DropdownFields \cup Range(Step10Keys)
    /\ (StartReturned /\ failed = 7 /\ ~obs.widget.returned) =>
          response.error_type = "SelectionError"

C38_Witness ==
    /\ StartReturned
    /\ failed = 7
    /\ obs.widget.field = "Make"
    /\ obs.widget.activations = << >>
    /\ ~obs.widget.returned
    /\ obs.widget.raised = NoFault
    /\ obs.origin = "none"
    /\ response.error_type = "SelectionError"

====
